---- MODULE Spec2Model ----
(***************************************************************************)
(* webpack-re: splitWebpackChunk (src/src/index.ts) and the helpers it     *)
(* uses from src/src/ast.ts, as a state machine.                            *)
(*                                                                         *)
(* A chunk text is a sequence of lexical tokens.  A syntax tree is a       *)
(* nested record, one record per Babel node, with Babel's node types and   *)
(* field names.  A traversal is an agenda of node paths in Babel's visiting *)
(* order; one action is one call of one visitor of the source.             *)
(***************************************************************************)
EXTENDS Integers, Sequences, FiniteSets, TLC

(***************************************************************************)
(* Syntax trees                                                            *)
(***************************************************************************)
Null == [type |-> "Null"]

Id(n) == [type |-> "Identifier", name |-> n]

Num(v) == [type |-> "NumericLiteral", value |-> v]

Str(s) == [type |-> "StringLiteral", value |-> s]

BigInt(v) == [type |-> "BigIntLiteral", value |-> v]

Obj(props) == [type |-> "ObjectExpression", properties |-> props]

Prop(k, v) ==
    [type |-> "ObjectProperty", key |-> k, value |-> v, computed |-> FALSE]

Spread(e) == [type |-> "SpreadElement", argument |-> e]

Call(c, args) == [type |-> "CallExpression", callee |-> c, arguments |-> args]

Member(o, p) ==
    [type |-> "MemberExpression", object |-> o, property |-> p, computed |-> FALSE]

Assign(op, l, r) ==
    [type |-> "AssignmentExpression", operator |-> op, left |-> l, right |-> r]

SeqExpr(es) == [type |-> "SequenceExpression", expressions |-> es]

Await(e) == [type |-> "AwaitExpression", argument |-> e]

ImportExpr(s) == [type |-> "ImportExpression", source |-> s]

ObjPattern(props) == [type |-> "ObjectPattern", properties |-> props]

ExprStmt(e) == [type |-> "ExpressionStatement", expression |-> e]

Declarator(id, init) == [type |-> "VariableDeclarator", id |-> id, init |-> init]

VarDecl(kind, ds) ==
    [type |-> "VariableDeclaration", kind |-> kind, declarations |-> ds]

Var(x, init) == VarDecl("var", <<Declarator(Id(x), init)>>)

Return(e) == [type |-> "ReturnStatement", argument |-> e]

Labeled(l, s) == [type |-> "LabeledStatement", label |-> Id(l), body |-> s]

ImportDecl(specs, src) ==
    [type |-> "ImportDeclaration", specifiers |-> specs, source |-> src]

ImportDefaultSpecifier(l) == [type |-> "ImportDefaultSpecifier", local |-> l]

ImportNamespaceSpecifier(l) == [type |-> "ImportNamespaceSpecifier", local |-> l]

ImportSpecifier(l, i) == [type |-> "ImportSpecifier", imported |-> i, local |-> l]

ExportDefault(d) == [type |-> "ExportDefaultDeclaration", declaration |-> d]

ExportSpecifier(l, e) == [type |-> "ExportSpecifier", local |-> l, exported |-> e]

ExportNamed(specs) ==
    [type |-> "ExportNamedDeclaration", declaration |-> Null, specifiers |-> specs]

FunctionTypes ==
    {"FunctionDeclaration", "FunctionExpression", "ArrowFunctionExpression"}

StatementTypes ==
    {"ExpressionStatement", "VariableDeclaration", "FunctionDeclaration",
     "ReturnStatement", "BlockStatement", "LabeledStatement",
     "ImportDeclaration", "ExportDefaultDeclaration", "ExportNamedDeclaration"}

K(f) == [f |-> f, list |-> FALSE]

KL(f) == [f |-> f, list |-> TRUE]

\* Babel's VISITOR_KEYS: the child fields of a node type, in visiting order.
VisitorKeys(type) ==
    CASE type = "Program" -> <<KL("body")>>
      [] type = "BlockStatement" -> <<KL("body")>>
      [] type = "ExpressionStatement" -> <<K("expression")>>
      [] type = "VariableDeclaration" -> <<KL("declarations")>>
      [] type = "VariableDeclarator" -> <<K("id"), K("init")>>
      [] type = "FunctionDeclaration" -> <<K("id"), KL("params"), K("body")>>
      [] type = "FunctionExpression" -> <<KL("params"), K("body")>>
      [] type = "ArrowFunctionExpression" -> <<KL("params"), K("body")>>
      [] type = "ReturnStatement" -> <<K("argument")>>
      [] type = "LabeledStatement" -> <<K("label"), K("body")>>
      [] type = "ImportDeclaration" -> <<KL("specifiers"), K("source")>>
      [] type = "ImportDefaultSpecifier" -> <<K("local")>>
      [] type = "ImportNamespaceSpecifier" -> <<K("local")>>
      [] type = "ImportSpecifier" -> <<K("imported"), K("local")>>
      [] type = "ExportDefaultDeclaration" -> <<K("declaration")>>
      [] type = "ExportNamedDeclaration" -> <<KL("specifiers")>>
      [] type = "ExportSpecifier" -> <<K("local"), K("exported")>>
      [] type = "CallExpression" -> <<K("callee"), KL("arguments")>>
      [] type = "MemberExpression" -> <<K("object"), K("property")>>
      [] type = "AssignmentExpression" -> <<K("left"), K("right")>>
      [] type = "SequenceExpression" -> <<KL("expressions")>>
      [] type = "ObjectExpression" -> <<KL("properties")>>
      [] type = "ObjectProperty" -> <<K("key"), K("value")>>
      [] type = "ObjectPattern" -> <<KL("properties")>>
      [] type = "SpreadElement" -> <<K("argument")>>
      [] type = "AwaitExpression" -> <<K("argument")>>
      [] type = "ImportExpression" -> <<K("source")>>
      [] OTHER -> <<>>

\* A path is a sequence of steps from the Program node; a step names a child
\* field and, for a list field, the position in the list (0 for a single child).
Step(f, i) == [f |-> f, i |-> i]

Child(n, s) == IF s.i = 0 THEN n[s.f] ELSE n[s.f][s.i]

RECURSIVE Get(_, _)
Get(n, p) == IF p = <<>> THEN n ELSE Get(Child(n, Head(p)), Tail(p))

RECURSIVE Put(_, _, _)
Put(n, p, v) ==
    IF p = <<>> THEN v
    ELSE LET s == Head(p) IN
         IF s.i = 0
         THEN [n EXCEPT ![s.f] = Put(n[s.f], Tail(p), v)]
         ELSE [n EXCEPT ![s.f] =
                  [n[s.f] EXCEPT ![s.i] = Put(n[s.f][s.i], Tail(p), v)]]

KeySteps(n, k) ==
    IF k.list THEN [j \in 1..Len(n[k.f]) |-> Step(k.f, j)]
    ELSE IF n[k.f].type = "Null" THEN <<>> ELSE <<Step(k.f, 0)>>

RECURSIVE StepsOf(_, _)
StepsOf(n, ks) ==
    IF ks = <<>> THEN <<>> ELSE KeySteps(n, Head(ks)) \o StepsOf(n, Tail(ks))

ChildSteps(n) == StepsOf(n, VisitorKeys(n.type))

ChildPaths(tree, p) ==
    LET ss == ChildSteps(Get(tree, p)) IN [j \in 1..Len(ss) |-> Append(p, ss[j])]

Front(p) == SubSeq(p, 1, Len(p) - 1)

Last(p) == p[Len(p)]

IsPrefix(q, p) == Len(q) <= Len(p) /\ SubSeq(p, 1, Len(q)) = q

SpliceIn(list, at, items) ==
    SubSeq(list, 1, at - 1) \o items \o SubSeq(list, at, Len(list))

SpliceOut(list, at) == SubSeq(list, 1, at - 1) \o SubSeq(list, at + 1, Len(list))

\* Every path of the tree below and including p, in depth-first order.
RECURSIVE AllPaths(_, _)
RECURSIVE AllPathsOf(_, _)
AllPathsOf(tree, ps) ==
    IF ps = <<>> THEN <<>>
    ELSE AllPaths(tree, Head(ps)) \o AllPathsOf(tree, Tail(ps))
AllPaths(tree, p) == <<p>> \o AllPathsOf(tree, ChildPaths(tree, p))

Range(s) == {s[j] : j \in 1..Len(s)}

(***************************************************************************)
(* Chunk Matcher: the wrapper regular expression of splitWebpackChunk, on  *)
(* tokens.  In source order the expression asks for: an opening paren, a   *)
(* name self.webpackChunk followed by word characters, "=", the same name  *)
(* again (a back-reference), "||", "[]", ")", ".push(", "[[", digits,      *)
(* "],", then "{", one or more characters of any kind, "}", "]", ")", ";". *)
(***************************************************************************)
\* the name part: self.webpackChunk and a run of word characters
IsWebpackChunkName(tok) == tok \in {"self.webpackChunk", "self.webpackChunk_app"}

\* a run of digits
IsDigits(tok) == tok \in {"7", "42"}

parseInt(tok) == CASE tok = "7" -> 7 [] tok = "42" -> 42 [] OTHER -> -1

\* HeadAt with the second name only required to be some webpackChunk name
HeadAt_NoBackReference(text, i) ==
    /\ i + 11 <= Len(text)
    /\ text[i] = "("
    /\ IsWebpackChunkName(text[i + 1])
    /\ text[i + 2] = "="
    /\ IsWebpackChunkName(text[i + 3])
    /\ text[i + 4] = "||"
    /\ text[i + 5] = "[]"
    /\ text[i + 6] = ")"
    /\ text[i + 7] = ".push("
    /\ text[i + 8] = "[["
    /\ IsDigits(text[i + 9])
    /\ text[i + 10] = "],"
    /\ text[i + 11] = "{"

\* the expression up to and including the opening brace, at token i
HeadAt(text, i) ==
    /\ i + 11 <= Len(text)
    /\ text[i] = "("
    /\ IsWebpackChunkName(text[i + 1])
    /\ text[i + 2] = "="
    /\ text[i + 3] = text[i + 1]
    /\ text[i + 4] = "||"
    /\ text[i + 5] = "[]"
    /\ text[i + 6] = ")"
    /\ text[i + 7] = ".push("
    /\ text[i + 8] = "[["
    /\ IsDigits(text[i + 9])
    /\ text[i + 10] = "],"
    /\ text[i + 11] = "{"

\* the closing brace and what must follow it, at token e
TailAt(text, e) ==
    /\ e + 3 <= Len(text)
    /\ text[e] = "}"
    /\ text[e + 1] = "]"
    /\ text[e + 2] = ")"
    /\ text[e + 3] = ";"

\* the any-character run takes at least one token between the braces
EndsFor(text, i) == {e \in (i + 13)..Len(text) : TailAt(text, e)}

Min(S) == CHOOSE x \in S : \A y \in S : x <= y

Max(S) == CHOOSE x \in S : \A y \in S : x >= y

\* chunkSrc.match: the leftmost match, the run greedy; m4 and m5 are the
\* capture groups 4 and 5.
ChunkMatch(text) ==
    LET starts == {i \in 1..Len(text) : HeadAt(text, i) /\ EndsFor(text, i) # {}}
    IN  IF starts = {} THEN [matched |-> FALSE, m4 |-> "", m5 |-> <<>>]
        ELSE LET i == Min(starts)
                 e == Max(EndsFor(text, i))
             IN  [matched |-> TRUE, m4 |-> text[i + 9],
                  m5 |-> SubSeq(text, i + 11, e)]

(***************************************************************************)
(* Module Table Extractor: parse(chunkModulesSrc) on tokens.  The token     *)
(* "<MODULES>" stands for the source text of the object properties `frag`.  *)
(***************************************************************************)
RECURSIVE SplitOn(_, _)
SplitOn(tokens, sep) ==
    IF \A j \in 1..Len(tokens) : tokens[j] # sep THEN <<tokens>>
    ELSE LET j == Min({k \in 1..Len(tokens) : tokens[k] = sep})
         IN  <<SubSeq(tokens, 1, j - 1)>>
                 \o SplitOn(SubSeq(tokens, j + 1, Len(tokens)), sep)

SyntaxError == [type |-> "SyntaxError"]

\* an item of a parenthesised list: an object literal, a member access on
\* one, or the literal 0
ParseItem(tokens, frag) ==
    IF tokens = <<"0">> THEN Num(0)
    ELSE IF tokens = <<"{", "<MODULES>", "}">> THEN Obj(frag)
    ELSE IF tokens = <<"{", " ", "}">> \/ tokens = <<"{", "}">> THEN Obj(<<>>)
    ELSE IF tokens = <<"{", " ", "}", ".x">> THEN Member(Obj(<<>>), Id("x"))
    ELSE SyntaxError

ParseOperand(tokens, frag) ==
    IF Len(tokens) < 3 \/ tokens[1] # "(" \/ tokens[Len(tokens)] # ")"
    THEN SyntaxError
    ELSE LET parts == SplitOn(SubSeq(tokens, 2, Len(tokens) - 1), ",")
             items == [j \in 1..Len(parts) |-> ParseItem(parts[j], frag)]
         IN  IF \E j \in 1..Len(items) : items[j] = SyntaxError THEN SyntaxError
             ELSE IF Len(items) = 1 THEN items[1]
             ELSE SeqExpr(items)

ParseStatement(tokens, frag) ==
    LET parts == SplitOn(tokens, "+")
        ops == [j \in 1..Len(parts) |-> ParseOperand(parts[j], frag)]
    IN  IF \E j \in 1..Len(ops) : ops[j] = SyntaxError THEN SyntaxError
        ELSE IF Len(ops) = 1 THEN ExprStmt(ops[1])
        ELSE ExprStmt([type |-> "BinaryExpression", operator |-> "+",
                       operands |-> ops])

\* parse(): a Program body, or SyntaxError where @babel/parser throws
Parse(tokens, frag) ==
    LET parts == SplitOn(tokens, ";")
        stmts == [j \in 1..Len(parts) |-> ParseStatement(parts[j], frag)]
    IN  IF \E j \in 1..Len(stmts) : stmts[j] = SyntaxError THEN SyntaxError
        ELSE [type |-> "Program", body |-> stmts]

(***************************************************************************)
(* Scopes.  A Program node and every function node carry `bound`, the      *)
(* names Babel's crawl registers in that scope; the Program node also      *)
(* carries `uids`, the generated identifiers.                              *)
(***************************************************************************)
RECURSIVE Hoisted(_)
Hoisted(stmts) ==
    IF stmts = <<>> THEN {}
    ELSE LET s == Head(stmts)
             own == CASE s.type = "VariableDeclaration" ->
                            {s.declarations[j].id.name :
                                j \in {k \in 1..Len(s.declarations) :
                                          s.declarations[k].id.type = "Identifier"}}
                      [] s.type = "FunctionDeclaration" -> {s.id.name}
                      [] s.type = "BlockStatement" -> Hoisted(s.body)
                      [] s.type = "LabeledStatement" -> Hoisted(<<s.body>>)
                      [] OTHER -> {}
         IN  own \cup Hoisted(Tail(stmts))

Block(stmts) == [type |-> "BlockStatement", body |-> stmts]

ParamNames(params) ==
    {params[j].name : j \in {k \in 1..Len(params) : params[k].type = "Identifier"}}

FunctionDecl(name, params, async, stmts) ==
    [type |-> "FunctionDeclaration", id |-> Id(name), params |-> params,
     async |-> async, body |-> Block(stmts),
     bound |-> ParamNames(params) \cup Hoisted(stmts)]

FunctionExpr(params, async, stmts) ==
    [type |-> "FunctionExpression", params |-> params, async |-> async,
     body |-> Block(stmts), bound |-> ParamNames(params) \cup Hoisted(stmts)]

\* an arrow function whose body is an expression
Arrow(params, async, expr) ==
    [type |-> "ArrowFunctionExpression", params |-> params, async |-> async,
     body |-> expr, bound |-> ParamNames(params)]

\* an arrow function whose body is a block
ArrowBlock(params, async, stmts) ==
    [type |-> "ArrowFunctionExpression", params |-> params, async |-> async,
     body |-> Block(stmts), bound |-> ParamNames(params) \cup Hoisted(stmts)]

\* file(program(body)) as the first traversal crawls it
File(stmts) ==
    [type |-> "Program", body |-> stmts, bound |-> Hoisted(stmts), uids |-> {}]

\* Scope.globals and Scope.contextVariables, as far as the inputs spell them
ScopeGlobals == {"undefined", "arguments", "Object"}

ProperPrefixes(p) == {SubSeq(p, 1, k) : k \in 0..(Len(p) - 1)}

\* path.scope.hasBinding(name) for a node at path p that is not itself a scope
hasBinding(tree, p, name) ==
    \/ \E q \in ProperPrefixes(p) :
          LET n == Get(tree, q)
          IN  n.type \in FunctionTypes \cup {"Program"} /\ name \in n.bound
    \/ name \in tree.uids
    \/ name \in ScopeGlobals

NoPath == <<Step("<none>", 0)>>

\* path.getFunctionParent(): the nearest function strictly above p
getFunctionParent(tree, p) ==
    LET fs == {q \in ProperPrefixes(p) : Get(tree, q).type \in FunctionTypes}
    IN  IF fs = {} THEN NoPath
        ELSE CHOOSE q \in fs : \A r \in fs : Len(r) <= Len(q)

\* path.getStatementParent(): the nearest statement held in a list, p included
getStatementParent(tree, p) ==
    LET ss == {q \in ProperPrefixes(p) \cup {p} :
                 /\ q # <<>>
                 /\ Last(q).i > 0
                 /\ Get(tree, q).type \in StatementTypes}
    IN  IF ss = {} THEN NoPath
        ELSE CHOOSE q \in ss : \A r \in ss : Len(r) <= Len(q)

(***************************************************************************)
(* Module ID Resolver and the pattern helpers of ast.ts                    *)
(***************************************************************************)
Undefined == "<undefined>"

\* chunkModuleParams[i], i counted from 0 as in the source
ParamAt(params, i) == IF i + 1 <= Len(params) THEN params[i + 1] ELSE Undefined

\* value.toString() of a numeric or string literal
LiteralToString(lit) ==
    IF lit.type = "NumericLiteral" THEN ToString(lit.value) ELSE lit.value

resolveModule_AlwaysRelative(moduleId, moduleTransformations) ==
    IF /\ moduleId \in DOMAIN moduleTransformations
       /\ moduleTransformations[moduleId].renameModule # ""
    THEN <<moduleTransformations[moduleId].renameModule,
           "./" \o moduleTransformations[moduleId].renameModule>>
    ELSE <<moduleId, "./" \o moduleId>>

\* resolveModule: <<final identifier, import path>>
resolveModule(moduleId, moduleTransformations) ==
    IF /\ moduleId \in DOMAIN moduleTransformations
       /\ moduleTransformations[moduleId].renameModule # ""
    THEN <<moduleTransformations[moduleId].renameModule,
           IF moduleTransformations[moduleId].importAsAbsolute
           THEN moduleTransformations[moduleId].renameModule
           ELSE "./" \o moduleTransformations[moduleId].renameModule>>
    ELSE <<moduleId, "./" \o moduleId>>

NoImport == "<null>"

\* parseImportCall: the raw module id of a require call, or NoImport (null);
\* sp is the path whose scope the caller passes
parseImportCall(tree, callExpression, sp, chunkModuleParams) ==
    IF /\ callExpression.callee.type = "Identifier"
       /\ callExpression.callee.name = ParamAt(chunkModuleParams, 2)
       /\ ~hasBinding(tree, sp, callExpression.callee.name)
       /\ Len(callExpression.arguments) = 1
       /\ callExpression.arguments[1].type \in {"NumericLiteral", "StringLiteral"}
    THEN LiteralToString(callExpression.arguments[1])
    ELSE NoImport

\* getDefaultExport: the right-hand side of a default-export assignment at
\* path p, or Null
getDefaultExport(tree, p, chunkModuleParams) ==
    LET node == Get(tree, p)
    IN  IF /\ node.left.type = "MemberExpression"
           /\ node.left.object.type = "Identifier"
           /\ node.left.object.name = ParamAt(chunkModuleParams, 0)
           /\ ~hasBinding(tree, p, node.left.object.name)
           /\ node.left.property.type = "Identifier"
           /\ node.left.property.name = "exports"
           /\ node.operator = "="
        THEN node.right
        ELSE Null

(***************************************************************************)
(* Traversal: the agenda holds the paths still to visit, in Babel's order. *)
(* Nodes of a type without a visitor are passed through to their children. *)
(***************************************************************************)
RECURSIVE Advance(_, _, _)
Advance(tree, agenda, types) ==
    IF agenda = <<>> THEN <<>>
    ELSE IF Get(tree, Head(agenda)).type \in types THEN agenda
    ELSE Advance(tree, ChildPaths(tree, Head(agenda)) \o Tail(agenda), types)

ScanTypes == {"CallExpression", "VariableDeclarator", "AssignmentExpression"}

\* the agenda after a visitor that left the node at the head in place
Descend(tree, agenda, types) ==
    Advance(tree, ChildPaths(tree, Head(agenda)) \o Tail(agenda), types)

EmptyMap == [x \in {} |-> Null]

Assoc(f, k, v) == [x \in DOMAIN f \cup {k} |-> IF x = k THEN v ELSE f[x]]

(***************************************************************************)
(* Factory Validator: one property of the module table                     *)
(***************************************************************************)
MaxParams == 3

\* ParamLoop with a mismatching name taking the slot over
RECURSIVE ParamLoop_Overwrite(_, _, _)
ParamLoop_Overwrite(fparams, i, params) ==
    IF i > Len(fparams) THEN [ok |-> TRUE, params |-> params, warn |-> ""]
    ELSE IF fparams[i].type # "Identifier"
    THEN [ok |-> FALSE, params |-> params,
          warn |-> "Invalid chunk module function param (type)"]
    ELSE IF i <= Len(params)
    THEN IF params[i] # fparams[i].name
         THEN [ok |-> FALSE, params |-> [params EXCEPT ![i] = fparams[i].name],
               warn |-> "Invalid chunk module function param (name)"]
         ELSE ParamLoop_Overwrite(fparams, i + 1, params)
    ELSE ParamLoop_Overwrite(fparams, i + 1, Append(params, fparams[i].name))

\* the parameter loop of chunkModulesLoop; i counts from 1.  The names it
\* has assigned stay assigned when a later parameter rejects the module.
RECURSIVE ParamLoop(_, _, _)
ParamLoop(fparams, i, params) ==
    IF i > Len(fparams) THEN [ok |-> TRUE, params |-> params, warn |-> ""]
    ELSE IF fparams[i].type # "Identifier"
    THEN [ok |-> FALSE, params |-> params,
          warn |-> "Invalid chunk module function param (type)"]
    ELSE IF i <= Len(params)
    THEN IF params[i] # fparams[i].name
         THEN [ok |-> FALSE, params |-> params,
               warn |-> "Invalid chunk module function param (name)"]
         ELSE ParamLoop(fparams, i + 1, params)
    ELSE ParamLoop(fparams, i + 1, Append(params, fparams[i].name))

\* ValidateEntry without the limit on the number of parameters
ValidateEntry_NoParamLimit(property, params, moduleTransformations) ==
    LET reject(w) == [accept |-> FALSE, params |-> params, warn |-> w,
                      rawModuleId |-> "", moduleId |-> ""]
    IN
    IF property.type # "ObjectProperty"
    THEN reject("Chunk module is not an object property")
    ELSE IF property.key.type \notin {"NumericLiteral", "StringLiteral", "Identifier"}
    THEN reject("Invalid chunk module key")
    ELSE
    LET rawModuleId == IF property.key.type = "Identifier" THEN property.key.name
                       ELSE LiteralToString(property.key)
        moduleId == resolveModule(rawModuleId, moduleTransformations)[1]
        rej(w, ps) == [accept |-> FALSE, params |-> ps, warn |-> w,
                       rawModuleId |-> rawModuleId, moduleId |-> moduleId]
    IN
    IF property.value.type \notin {"FunctionExpression", "ArrowFunctionExpression"}
    THEN rej("Invalid chunk module value", params)
    ELSE
    LET pl == ParamLoop(property.value.params, 1, params)
    IN
    IF ~pl.ok THEN rej(pl.warn, pl.params)
    ELSE IF property.value.body.type # "BlockStatement"
    THEN rej("Invalid chunk module function body", pl.params)
    ELSE [accept |-> TRUE, params |-> pl.params, warn |-> "",
          rawModuleId |-> rawModuleId, moduleId |-> moduleId]

\* the checks of one table entry, in source order: whether it is accepted,
\* the slot names afterwards, and the diagnostic of a rejection
ValidateEntry(property, params, moduleTransformations) ==
    LET reject(w) == [accept |-> FALSE, params |-> params, warn |-> w,
                      rawModuleId |-> "", moduleId |-> ""]
    IN
    IF property.type # "ObjectProperty"
    THEN reject("Chunk module is not an object property")
    ELSE IF property.key.type \notin {"NumericLiteral", "StringLiteral", "Identifier"}
    THEN reject("Invalid chunk module key")
    ELSE
    LET rawModuleId == IF property.key.type = "Identifier" THEN property.key.name
                       ELSE LiteralToString(property.key)
        moduleId == resolveModule(rawModuleId, moduleTransformations)[1]
        rej(w, ps) == [accept |-> FALSE, params |-> ps, warn |-> w,
                       rawModuleId |-> rawModuleId, moduleId |-> moduleId]
    IN
    IF property.value.type \notin {"FunctionExpression", "ArrowFunctionExpression"}
    THEN rej("Invalid chunk module value", params)
    ELSE IF Len(property.value.params) > MaxParams
    THEN rej("Too many chunk module function params", params)
    ELSE
    LET pl == ParamLoop(property.value.params, 1, params)
    IN
    IF ~pl.ok THEN rej(pl.warn, pl.params)
    ELSE IF property.value.body.type # "BlockStatement"
    THEN rej("Invalid chunk module function body", pl.params)
    ELSE [accept |-> TRUE, params |-> pl.params, warn |-> "",
          rawModuleId |-> rawModuleId, moduleId |-> moduleId]

(***************************************************************************)
(* Dependency graph (graphology), as far as splitWebpackChunk drives it    *)
(***************************************************************************)
NoGraph == [kind |-> "none", nodes |-> {}, edges |-> <<>>, attrs |-> EmptyMap]

\* graph?.mergeEdge(source, target)
mergeEdge(g, source, target) ==
    IF g.kind = "none" THEN g
    ELSE IF g.kind = "directed" /\ <<source, target>> \in Range(g.edges) THEN g
    ELSE [g EXCEPT !.nodes = @ \cup {source, target},
                   !.edges = Append(@, <<source, target>>)]

\* graph?.mergeNode(node)
mergeNode(g, node) ==
    IF g.kind = "none" THEN g ELSE [g EXCEPT !.nodes = @ \cup {node}]

\* graph?.mergeNodeAttributes(node, attributes)
mergeNodeAttributes(g, node, attributes) ==
    IF g.kind = "none" THEN g ELSE [g EXCEPT !.attrs = Assoc(@, node, attributes)]

(***************************************************************************)
(* State                                                                   *)
(***************************************************************************)
VARIABLES
    chunkSrc,           \* the input text: [text, frag]
    options,            \* the options argument of splitWebpackChunk
    pc,                 \* where the call stands
    m,                  \* the result of chunkSrc.match
    table,              \* rootObjectExpression.properties
    idx,                \* the position of chunkModulesLoop in table
    chunkModuleParams,  \* the chunk-wide slot names
    chunkModules,       \* final identifier -> ChunkModule
    keyOrder,           \* the keys of chunkModules in insertion order
    cur,                \* the module the running traversal belongs to
    agenda,             \* the paths the running traversal has still to visit
    entries,            \* Object.entries(chunkModules) of the second loop
    importsToRename,    \* the rename map of the running split traversal
    graph,              \* the graph option
    log,                \* what the loggers were given at warn and debug level
    result,             \* what the call returned
    files,              \* the chunk files the caller runs over, in order
    fileIdx,            \* the position of the caller's loop in files
    importedModules,    \* the caller's set of imported module identifiers
    declaredModules,    \* the caller's set of declared module identifiers
    undeclaredModules,  \* importedModules.difference(declaredModules)
    chunkCount,         \* the chunks the caller has counted
    moduleVariables,    \* declaring identifier -> ordinal, of the running module
    moduleVariableCount \* the ordinals given out for the running module

\* the state of the caller
cli == <<files, fileIdx, importedModules, declaredModules, undeclaredModules,
         chunkCount>>

vars == <<chunkSrc, options, pc, m, table, idx, chunkModuleParams, chunkModules,
          keyOrder, cur, agenda, entries, importsToRename, graph, log,
          result, files, fileIdx, importedModules, declaredModules,
          undeclaredModules, chunkCount, moduleVariables, moduleVariableCount>>

\* the state of the module transformation traversal
transformation == <<moduleVariables, moduleVariableCount>>

NoModule ==
    [moduleId |-> "", rawModuleId |-> "", entry |-> 0, file |-> File(<<>>),
     isCommonJS |-> FALSE, hasDefaultExport |-> FALSE]

\* the log after moduleLogger.warn / chunkLogger.warn
Warn(tag, msg) == Append(log, [level |-> "warn", tag |-> tag, msg |-> msg])

Warns(tag, msgs) ==
    log \o [j \in 1..Len(msgs) |-> [level |-> "warn", tag |-> tag, msg |-> msgs[j]]]

\* the log after moduleLogger.debug
Debug(tag, msg) == Append(log, [level |-> "debug", tag |-> tag, msg |-> msg])

NoResult == [kind |-> "pending", id |-> 0, modules |-> EmptyMap]

(***************************************************************************)
(* splitWebpackChunk, up to the end of the first loop                      *)
(***************************************************************************)
\* const m = chunkSrc.match(...); if (!m) return null
Match ==
    /\ UNCHANGED cli
    /\ UNCHANGED transformation
    /\ pc = "match"
    /\ m' = ChunkMatch(chunkSrc.text)
    /\ IF m'.matched
       THEN pc' = "parse" /\ UNCHANGED result
       ELSE pc' = "done" /\ result' = [NoResult EXCEPT !.kind = "null"]
    /\ UNCHANGED <<chunkSrc, options, table, idx, chunkModuleParams, chunkModules,
                   keyOrder, cur, agenda, entries, importsToRename, graph,
                   log>>

\* the root object of the parsed table text, or Null
RootObject(ast) ==
    IF Len(ast.body) # 1 THEN Null
    ELSE IF ast.body[1].type # "ExpressionStatement" THEN Null
    ELSE IF ast.body[1].expression.type # "SequenceExpression" THEN Null
    ELSE IF ast.body[1].expression.expressions[1].type # "ObjectExpression" THEN Null
    ELSE ast.body[1].expression.expressions[1]

\* const ast = parse(chunkModulesSrc) and the shape checks on it
ParseChunk ==
    /\ UNCHANGED cli
    /\ UNCHANGED transformation
    /\ pc = "parse"
    /\ LET chunkModulesSrc == <<"(">> \o m.m5 \o <<",", "0", ")">>
           ast == Parse(chunkModulesSrc, chunkSrc.frag)
       IN  IF ast = SyntaxError
           THEN /\ pc' = "done"
                /\ result' = [NoResult EXCEPT !.kind = "threw"]
                /\ UNCHANGED table
           ELSE IF RootObject(ast) = Null
           THEN /\ pc' = "done"
                /\ result' = [NoResult EXCEPT !.kind = "null"]
                /\ UNCHANGED table
           ELSE /\ pc' = "loop"
                /\ table' = RootObject(ast).properties
                /\ UNCHANGED result
    /\ UNCHANGED <<chunkSrc, options, m, idx, chunkModuleParams, chunkModules,
                   keyOrder, cur, agenda, entries, importsToRename, graph,
                   log>>

\* one iteration of chunkModulesLoop up to the start of the scan traversal
ChunkModulesLoop ==
    /\ UNCHANGED cli
    /\ UNCHANGED transformation
    /\ pc = "loop"
    /\ idx <= Len(table)
    /\ LET v == ValidateEntry(table[idx], chunkModuleParams,
                              options.moduleTransformations)
       IN  /\ chunkModuleParams' = v.params
           /\ IF v.accept
              THEN LET moduleFile == File(table[idx].value.body.body)
                   IN  /\ cur' = [moduleId |-> v.moduleId,
                                  rawModuleId |-> v.rawModuleId,
                                  entry |-> idx, file |-> moduleFile,
                                  isCommonJS |-> FALSE,
                                  hasDefaultExport |-> FALSE]
                       /\ agenda' = Advance(moduleFile, << <<>> >>, ScanTypes)
                       /\ pc' = "scan"
                       /\ log' =
                             Debug(v.moduleId,
                                   "Running initial import and export scan traversal")
                       /\ UNCHANGED idx
              ELSE /\ idx' = idx + 1
                   /\ log' = Warn(v.moduleId, v.warn)
                   /\ UNCHANGED <<cur, agenda, pc>>
    /\ UNCHANGED <<chunkSrc, options, m, table, chunkModules, keyOrder, entries,
                   importsToRename, graph, result>>

\* the diagnostic parseImportCall logs, "" when it logs none
parseImportCallWarn(tree, callExpression, sp, params) ==
    IF /\ callExpression.callee.type = "Identifier"
       /\ callExpression.callee.name = ParamAt(params, 2)
       /\ ~hasBinding(tree, sp, callExpression.callee.name)
    THEN IF Len(callExpression.arguments) # 1
         THEN "Invalid number of import arguments"
         ELSE IF callExpression.arguments[1].type
                    \notin {"NumericLiteral", "StringLiteral"}
         THEN "Invalid import argument"
         ELSE ""
    ELSE ""

WarnIf(tag, msg) == IF msg = "" THEN log ELSE Warn(tag, msg)

\* what a scan visitor does with the call it was handed
\* ScanImport that resolves the required key with the override of the importer
ScanImport_ImporterOverride(callExpression) ==
    LET raw == parseImportCall(cur.file, callExpression, Head(agenda),
                               chunkModuleParams)
        mt == options.moduleTransformations
    IN  /\ graph' = IF raw = NoImport THEN graph
                    ELSE mergeEdge(graph, cur.moduleId,
                           IF cur.rawModuleId \in DOMAIN mt
                           THEN mt[cur.rawModuleId].renameModule ELSE raw)
        /\ log' = WarnIf(cur.moduleId,
                          parseImportCallWarn(cur.file, callExpression,
                                              Head(agenda), chunkModuleParams))

ScanImport(callExpression) ==
    LET raw == parseImportCall(cur.file, callExpression, Head(agenda),
                               chunkModuleParams)
    IN  /\ graph' = IF raw = NoImport THEN graph
                    ELSE mergeEdge(graph, cur.moduleId,
                           resolveModule(raw, options.moduleTransformations)[1])
        /\ log' = WarnIf(cur.moduleId,
                          parseImportCallWarn(cur.file, callExpression,
                                              Head(agenda), chunkModuleParams))

\* scan traversal, CallExpression(path)
ScanCallExpression ==
    /\ UNCHANGED cli
    /\ UNCHANGED transformation
    /\ pc = "scan"
    /\ agenda # <<>>
    /\ Get(cur.file, Head(agenda)).type = "CallExpression"
    /\ ScanImport(Get(cur.file, Head(agenda)))
    /\ agenda' = Descend(cur.file, agenda, ScanTypes)
    /\ UNCHANGED <<chunkSrc, options, pc, m, table, idx, chunkModuleParams,
                   chunkModules, keyOrder, cur, entries, importsToRename, result>>

\* scan traversal, VariableDeclarator(path)
ScanVariableDeclarator ==
    /\ UNCHANGED cli
    /\ UNCHANGED transformation
    /\ pc = "scan"
    /\ agenda # <<>>
    /\ LET node == Get(cur.file, Head(agenda))
       IN  /\ node.type = "VariableDeclarator"
           /\ IF node.init.type = "CallExpression" THEN ScanImport(node.init)
              ELSE IF /\ node.init.type = "MemberExpression"
                      /\ node.init.object.type = "CallExpression"
              THEN ScanImport(node.init.object)
              ELSE UNCHANGED <<graph, log>>
    /\ agenda' = Descend(cur.file, agenda, ScanTypes)
    /\ UNCHANGED <<chunkSrc, options, pc, m, table, idx, chunkModuleParams,
                   chunkModules, keyOrder, cur, entries, importsToRename, result>>

\* the diagnostic getDefaultExport logs, "" when it logs none
getDefaultExportWarn(tree, p, params) ==
    LET node == Get(tree, p)
    IN  IF /\ node.left.type = "MemberExpression"
           /\ node.left.object.type = "Identifier"
           /\ node.left.object.name = ParamAt(params, 0)
           /\ ~hasBinding(tree, p, node.left.object.name)
           /\ node.left.property.type = "Identifier"
           /\ node.left.property.name = "exports"
           /\ node.operator # "="
        THEN "Invalid default exports operator"
        ELSE ""

\* ScanFlags without the object-literal rule
ScanFlags_NoObjectRule(flags, defaultExport) ==
    [isCommonJS |-> flags.isCommonJS \/ flags.hasDefaultExport,
     hasDefaultExport |-> TRUE]

\* the flags after the scan has met one default export
ScanFlags(flags, defaultExport) ==
    [isCommonJS |-> \/ flags.isCommonJS
                    \/ flags.hasDefaultExport
                    \/ defaultExport.type = "ObjectExpression",
     hasDefaultExport |-> TRUE]

\* scan traversal, AssignmentExpression(path)
ScanAssignmentExpression ==
    /\ UNCHANGED cli
    /\ UNCHANGED transformation
    /\ pc = "scan"
    /\ agenda # <<>>
    /\ Get(cur.file, Head(agenda)).type = "AssignmentExpression"
    /\ LET defaultExport == getDefaultExport(cur.file, Head(agenda),
                                             chunkModuleParams)
           flags == ScanFlags(cur, defaultExport)
       IN  cur' = IF defaultExport = Null THEN cur
                  ELSE [cur EXCEPT !.isCommonJS = flags.isCommonJS,
                                   !.hasDefaultExport = flags.hasDefaultExport]
    /\ log' = WarnIf(cur.moduleId,
                      getDefaultExportWarn(cur.file, Head(agenda),
                                           chunkModuleParams))
    /\ agenda' = Descend(cur.file, agenda, ScanTypes)
    /\ UNCHANGED <<chunkSrc, options, pc, m, table, idx, chunkModuleParams,
                   chunkModules, keyOrder, entries, importsToRename, graph,
                   result>>

\* the end of the scan traversal: graph?.mergeNode and chunkModules[moduleId]
ScanDone ==
    /\ UNCHANGED cli
    /\ UNCHANGED transformation
    /\ pc = "scan"
    /\ agenda = <<>>
    /\ graph' = mergeNode(graph, cur.moduleId)
    /\ chunkModules' =
          Assoc(chunkModules, cur.moduleId,
                [file |-> cur.file, source |-> "", rawModuleId |-> cur.rawModuleId,
                 isCommonJS |-> cur.isCommonJS,
                 hasDefaultExport |-> cur.hasDefaultExport, entry |-> cur.entry])
    /\ keyOrder' = IF cur.moduleId \in Range(keyOrder) THEN keyOrder
                   ELSE Append(keyOrder, cur.moduleId)
    /\ idx' = idx + 1
    /\ pc' = "loop"
    /\ UNCHANGED <<chunkSrc, options, m, table, chunkModuleParams, cur, agenda,
                   entries, importsToRename, log, result>>

(***************************************************************************)
(* Tree edits of the split traversal: NodePath.insertBefore, remove and    *)
(* Scope.rename, with what they do to the paths still on the agenda.       *)
(***************************************************************************)
SplitTypes ==
    {"CallExpression", "VariableDeclarator", "AssignmentExpression",
     "Identifier", "ExportSpecifier"}

\* q lies in the list field f of the node at c
InContainer(q, c, f) == IsPrefix(c, q) /\ Len(q) > Len(c) /\ q[Len(c) + 1].f = f

\* updateSiblingKeys: q after the keys from `at` on moved by `count`
Shift(q, c, f, at, count) ==
    IF InContainer(q, c, f) /\ q[Len(c) + 1].i >= at
    THEN [q EXCEPT ![Len(c) + 1] = Step(f, q[Len(c) + 1].i + count)]
    ELSE q

\* statementParent.insertBefore(nodes) for the statement at sp: the new
\* statements go in front of it, and their paths go to the end of the queue
\* of the list that holds it
InsertBefore(tree, ag, sp, nodes) ==
    LET c == Front(sp)
        f == Last(sp).f
        at == Last(sp).i
        holder == Get(tree, c)
        shifted == [j \in 1..Len(ag) |-> Shift(ag[j], c, f, at, Len(nodes))]
        last == Max({j \in 1..Len(ag) : InContainer(shifted[j], c, f)} \cup {0})
        fresh == [j \in 1..Len(nodes) |-> Append(c, Step(f, at + j - 1))]
    IN  [tree |-> Put(tree, c, [holder EXCEPT ![f] = SpliceIn(holder[f], at, nodes)]),
         agenda |-> SubSeq(shifted, 1, last) \o fresh
                        \o SubSeq(shifted, last + 1, Len(shifted))]

\* getBindingIdentifiers of a node that is about to be removed
BindingIdentifiers(node) ==
    CASE node.type = "VariableDeclarator" ->
            IF node.id.type = "Identifier" THEN {node.id.name} ELSE {}
      [] node.type = "VariableDeclaration" ->
            {node.declarations[j].id.name :
                j \in {k \in 1..Len(node.declarations) :
                          node.declarations[k].id.type = "Identifier"}}
      [] node.type = "FunctionDeclaration" -> {node.id.name}
      [] OTHER -> {}

\* the scopes above p that bind name, innermost last
BindingScopes(tree, p, name) ==
    {q \in ProperPrefixes(p) :
        LET n == Get(tree, q)
        IN  n.type \in FunctionTypes \cup {"Program"} /\ name \in n.bound}

Innermost(qs) == CHOOSE q \in qs : \A r \in qs : Len(r) <= Len(q)

\* scope.removeBinding(name) for every name in names
RECURSIVE removeBindings(_, _, _)
removeBindings(tree, p, names) ==
    IF names = {} THEN tree
    ELSE LET name == CHOOSE x \in names : TRUE
             qs == BindingScopes(tree, p, name)
             t1 == IF qs = {} THEN tree
                   ELSE LET q == Innermost(qs)
                            n == Get(tree, q)
                        IN  Put(tree, q, [n EXCEPT !.bound = n.bound \ {name}])
             t2 == [t1 EXCEPT !.uids = t1.uids \ {name}]
         IN  removeBindings(t2, p, names \ {name})

DropBelow(ag, p) == SelectSeq(ag, LAMBDA q : ~IsPrefix(p, q))

\* path.remove() for the node at p, removal hooks included: a statement that
\* would be left without its only part goes with it
RECURSIVE Remove(_, _, _)
Remove(tree, ag, p) ==
    LET parent == Get(tree, Front(p))
        s == Last(p)
        t1 == removeBindings(tree, p, BindingIdentifiers(Get(tree, p)))
    IN  IF \/ s.f = "expression" /\ parent.type = "ExpressionStatement"
           \/ s.f = "body" /\ parent.type = "LabeledStatement"
           \/ s.f = "declaration" /\ parent.type = "ExportDefaultDeclaration"
           \/ parent.type = "VariableDeclaration" /\ Len(parent.declarations) = 1
        THEN Remove(t1, ag, Front(p))
        ELSE IF s.f = "body" /\ parent.type = "ArrowFunctionExpression"
        THEN [tree |-> Put(t1, p, Block(<<>>)), agenda |-> DropBelow(ag, p)]
        ELSE IF s.i = 0
        THEN [tree |-> Put(t1, p, Null), agenda |-> DropBelow(ag, p)]
        ELSE LET c == Front(p)
                 holder == Get(t1, c)
                 kept == DropBelow(ag, p)
             IN  [tree |-> Put(t1, c, [holder EXCEPT ![s.f] = SpliceOut(holder[s.f], s.i)]),
                  agenda |-> [j \in 1..Len(kept) |->
                                 Shift(kept[j], c, s.f, s.i + 1, -1)]]

\* the reserved words of the `reserved` package that the inputs spell
reserved == {"default", "class", "function", "new", "delete", "import"}

\* the renamer's walk: identifiers in reference or binding position, nested
\* scopes that bind the old name themselves passed over
RECURSIVE RenameNode(_, _, _)
RECURSIVE RenameKeys(_, _, _, _)
RenameKeys(n, ks, old, new) ==
    IF ks = <<>> THEN n
    ELSE LET k == Head(ks)
             v == IF k.list
                  THEN [j \in 1..Len(n[k.f]) |-> RenameNode(n[k.f][j], old, new)]
                  ELSE RenameNode(n[k.f], old, new)
         IN  RenameKeys([n EXCEPT ![k.f] = v], Tail(ks), old, new)
RenameNode(n, old, new) ==
    CASE n.type = "Identifier" -> IF n.name = old THEN [n EXCEPT !.name = new] ELSE n
      [] n.type \in FunctionTypes /\ old \in n.bound -> n
      [] n.type = "MemberExpression" /\ ~n.computed ->
            RenameKeys(n, <<K("object")>>, old, new)
      [] n.type = "ObjectProperty" /\ ~n.computed ->
            RenameKeys(n, <<K("value")>>, old, new)
      [] n.type = "LabeledStatement" -> RenameKeys(n, <<K("body")>>, old, new)
      [] n.type \in {"ExportSpecifier", "ImportSpecifier"} ->
            RenameKeys(n, <<K("local")>>, old, new)
      [] OTHER -> RenameKeys(n, VisitorKeys(n.type), old, new)

\* scope.rename(old, new) from the scope of the node at p: nothing when no
\* scope above p binds old
scopeRename(tree, p, old, new) ==
    LET qs == BindingScopes(tree, p, old)
    IN  IF qs = {} THEN tree
        ELSE LET q == Innermost(qs)
                 n == Get(tree, q)
                 walked == RenameKeys(n, VisitorKeys(n.type), old, new)
             IN  Put(tree, q,
                     [walked EXCEPT !.bound = (n.bound \ {old}) \cup {new}])

\* rename that asks the scope to rename without looking for the target
rename_NoCollisionCheck(tree, p, original, renameTo) ==
    LET target == IF renameTo \in reserved THEN "_" \o renameTo ELSE renameTo
    IN  IF renameTo = "" \/ original = target
        THEN [tree |-> tree, warn |-> "", ret |-> ""]
        ELSE [tree |-> scopeRename(tree, p, original, target), warn |-> "",
              ret |-> target]

\* rename() of ast.ts: the tree afterwards, the diagnostic ("" for none) and
\* the value returned ("" for null)
rename(tree, p, original, renameTo) ==
    LET target == IF renameTo \in reserved THEN "_" \o renameTo ELSE renameTo
    IN  IF renameTo = "" \/ original = target
        THEN [tree |-> tree, warn |-> "", ret |-> ""]
        ELSE IF hasBinding(tree, p, target)
        THEN [tree |-> tree, warn |-> "Cannot rename variable, already bound",
              ret |-> ""]
        ELSE [tree |-> scopeRename(tree, p, original, target), warn |-> "",
              ret |-> target]

(***************************************************************************)
(* The second loop of splitWebpackChunk: the split traversal               *)
(***************************************************************************)
\* the largest array-index key the inputs spell
MaxKey == 12

IsIndexKey(k) == \E n \in 0..MaxKey : ToString(n) = k

RECURSIVE IndexKeysFrom(_, _)
IndexKeysFrom(n, keys) ==
    IF n > MaxKey THEN <<>>
    ELSE (IF ToString(n) \in keys THEN <<ToString(n)>> ELSE <<>>)
             \o IndexKeysFrom(n + 1, keys)

\* the key order of Object.entries: array-index keys ascending, then the
\* other keys in insertion order
ObjectEntries(order) ==
    IndexKeysFrom(0, Range(order)) \o SelectSeq(order, LAMBDA k : ~IsIndexKey(k))

NoWarn(t, a) == [tree |-> t, agenda |-> a, warns |-> <<>>]

Skipped(w) == [exports |-> <<>>, warns |-> <<w>>]

\* the export declaration for exportedVar under the name exportAs
ExportOf(exportedVar, exportAs) ==
    IF exportAs = "default" THEN ExportDefault(Id(exportedVar))
    ELSE ExportNamed(<<ExportSpecifier(Id(exportedVar), Id(exportAs))>>)

\* DefinerProperty that exports the key itself for an empty block
DefinerProperty_VoidExported(property) ==
    IF property.type # "ObjectProperty" THEN Skipped("Invalid export")
    ELSE IF property.key.type # "Identifier"
    THEN Skipped("Invalid export property key")
    ELSE IF property.value.type \notin {"FunctionExpression", "ArrowFunctionExpression"}
    THEN Skipped("Invalid export property value")
    ELSE IF Len(property.value.params) # 0
    THEN Skipped("Invalid export property value params")
    ELSE
    LET body == property.value.body
    IN  IF body.type = "BlockStatement"
        THEN IF Len(body.body) = 1
             THEN IF body.body[1].type # "ReturnStatement"
                  THEN Skipped("Invalid export property value body")
                  ELSE IF body.body[1].argument.type = "Null"
                  THEN Skipped("Void exports not implemented")
                  ELSE IF body.body[1].argument.type # "Identifier"
                  THEN Skipped("Invalid export property value body")
                  ELSE [exports |-> <<ExportOf(body.body[1].argument.name,
                                               property.key.name)>>,
                        warns |-> <<"Void exports not implemented">>]
             ELSE IF Len(body.body) # 0
             THEN Skipped("Invalid export property value body")
             ELSE [exports |-> <<ExportOf(property.key.name, property.key.name)>>,
                   warns |-> <<>>]
        ELSE IF body.type = "Identifier"
        THEN [exports |-> <<ExportOf(body.name, property.key.name)>>,
              warns |-> <<>>]
        ELSE Skipped("Invalid export property value body")

\* one property of the second argument of an exports-definer call
DefinerProperty(property) ==
    IF property.type # "ObjectProperty" THEN Skipped("Invalid export")
    ELSE IF property.key.type # "Identifier"
    THEN Skipped("Invalid export property key")
    ELSE IF property.value.type \notin {"FunctionExpression", "ArrowFunctionExpression"}
    THEN Skipped("Invalid export property value")
    ELSE IF Len(property.value.params) # 0
    THEN Skipped("Invalid export property value params")
    ELSE
    LET body == property.value.body
    IN  IF body.type = "BlockStatement"
        THEN IF Len(body.body) = 1
             THEN IF body.body[1].type # "ReturnStatement"
                  THEN Skipped("Invalid export property value body")
                  ELSE IF body.body[1].argument.type = "Null"
                  THEN Skipped("Void exports not implemented")
                  ELSE IF body.body[1].argument.type # "Identifier"
                  THEN Skipped("Invalid export property value body")
                  ELSE [exports |-> <<ExportOf(body.body[1].argument.name,
                                               property.key.name)>>,
                        warns |-> <<"Void exports not implemented">>]
             ELSE IF Len(body.body) # 0
             THEN Skipped("Invalid export property value body")
             ELSE Skipped("Void exports not implemented")
        ELSE IF body.type = "Identifier"
        THEN [exports |-> <<ExportOf(body.name, property.key.name)>>,
              warns |-> <<>>]
        ELSE Skipped("Invalid export property value body")

\* DefinerExports with the declarations in reverse property order
RECURSIVE DefinerExports_Reversed(_, _)
DefinerExports_Reversed(properties, i) ==
    IF i > Len(properties) THEN [exports |-> <<>>, warns |-> <<>>]
    ELSE LET one == DefinerProperty(properties[i])
             rest == DefinerExports_Reversed(properties, i + 1)
         IN  [exports |-> rest.exports \o one.exports,
              warns |-> one.warns \o rest.warns]

\* the property loop of the exports-definer rule, from property i on
RECURSIVE DefinerExports(_, _)
DefinerExports(properties, i) ==
    IF i > Len(properties) THEN [exports |-> <<>>, warns |-> <<>>]
    ELSE LET one == DefinerProperty(properties[i])
             rest == DefinerExports(properties, i + 1)
         IN  [exports |-> one.exports \o rest.exports,
              warns |-> one.warns \o rest.warns]

\* whether the callee of a call is <slot 2>.d
IsDefinerCallee(callee, params) ==
    /\ callee.type = "MemberExpression"
    /\ callee.object.type = "Identifier"
    /\ callee.object.name = ParamAt(params, 2)
    /\ callee.property.type = "Identifier"
    /\ callee.property.name = "d"

\* split traversal, CallExpression(path), callee a member expression
DefinerCall(tree, ag, params) ==
    LET p == Head(ag)
        node == Get(tree, p)
        stay == [tree |-> tree, agenda |-> ChildPaths(tree, p) \o Tail(ag)]
    IN  IF ~IsDefinerCallee(node.callee, params)
        THEN [tree |-> stay.tree, agenda |-> stay.agenda, warns |-> <<>>]
        ELSE IF Len(node.arguments) # 2
        THEN [tree |-> stay.tree, agenda |-> stay.agenda,
              warns |-> <<"Invalid export arguments">>]
        ELSE IF \/ node.arguments[1].type # "Identifier"
                \/ node.arguments[1].name # ParamAt(params, 1)
        THEN [tree |-> stay.tree, agenda |-> stay.agenda,
              warns |-> <<"Invalid export first argument">>]
        ELSE IF node.arguments[2].type # "ObjectExpression"
        THEN [tree |-> stay.tree, agenda |-> stay.agenda,
              warns |-> <<"Invalid exports">>]
        ELSE LET ex == DefinerExports(node.arguments[2].properties, 1)
                 ins == InsertBefore(tree, ag, getStatementParent(tree, p),
                                     ex.exports)
                 rem == Remove(ins.tree, ins.agenda, Head(ins.agenda))
             IN  [tree |-> rem.tree, agenda |-> rem.agenda, warns |-> ex.warns]

\* require(path)
RequireCall(importModulePath) == Call(Id("require"), <<Str(importModulePath)>>)

\* ImportCall that takes any enclosing function as a reason to use require
ImportCall_AnyFunction(tree, ag, params, moduleIsCommonJS, moduleTransformations) ==
    LET p == Head(ag)
        node == Get(tree, p)
        importRawModuleId == parseImportCall(tree, node, p, params)
        w == parseImportCallWarn(tree, node, p, params)
        importModulePath == resolveModule(importRawModuleId, moduleTransformations)[2]
    IN  IF importRawModuleId = NoImport
        THEN [tree |-> tree, agenda |-> ChildPaths(tree, p) \o Tail(ag),
              warns |-> IF w = "" THEN <<>> ELSE <<w>>]
        ELSE IF moduleIsCommonJS \/ getFunctionParent(tree, p) # NoPath
        THEN NoWarn(Put(tree, p, RequireCall(importModulePath)), ag)
        ELSE NoWarn(Put(tree, p, Await(ImportExpr(Str(importModulePath)))), ag)

\* split traversal, CallExpression(path), callee not a member expression
ImportCall(tree, ag, params, moduleIsCommonJS, moduleTransformations) ==
    LET p == Head(ag)
        node == Get(tree, p)
        importRawModuleId == parseImportCall(tree, node, p, params)
        w == parseImportCallWarn(tree, node, p, params)
        importModulePath == resolveModule(importRawModuleId, moduleTransformations)[2]
        functionParent == getFunctionParent(tree, p)
        useRequire == \/ moduleIsCommonJS
                      \/ /\ functionParent # NoPath
                         /\ Get(tree, functionParent).async = FALSE
    IN  IF importRawModuleId = NoImport
        THEN [tree |-> tree, agenda |-> ChildPaths(tree, p) \o Tail(ag),
              warns |-> IF w = "" THEN <<>> ELSE <<w>>]
        ELSE IF useRequire
        THEN NoWarn(Put(tree, p, RequireCall(importModulePath)), ag)
        ELSE NoWarn(Put(tree, p, Await(ImportExpr(Str(importModulePath)))), ag)

\* split traversal, CallExpression(path)
SplitCallExpression ==
    /\ UNCHANGED cli
    /\ UNCHANGED transformation
    /\ pc = "split"
    /\ agenda # <<>>
    /\ Get(cur.file, Head(agenda)).type = "CallExpression"
    /\ LET r == IF Get(cur.file, Head(agenda)).callee.type = "MemberExpression"
               THEN DefinerCall(cur.file, agenda, chunkModuleParams)
               ELSE ImportCall(cur.file, agenda, chunkModuleParams,
                               cur.isCommonJS, options.moduleTransformations)
       IN  /\ cur' = [cur EXCEPT !.file = r.tree]
           /\ agenda' = Advance(r.tree, r.agenda, SplitTypes)
           /\ log' = Warns(cur.moduleId, r.warns)
    /\ UNCHANGED <<chunkSrc, options, pc, m, table, idx, chunkModuleParams,
                   chunkModules, keyOrder, entries, importsToRename, graph,
                   result>>

\* the import declaration put in front of the statement of the declarator
\* at the head of the agenda, and the declarator removed
ImportInsteadOf(tree, ag, specifier, importModulePath) ==
    LET ins == InsertBefore(tree, ag, getStatementParent(tree, Head(ag)),
                            <<ImportDecl(<<specifier>>, Str(importModulePath))>>)
    IN  Remove(ins.tree, ins.agenda, Head(ins.agenda))

\* DeclaratorOfCall that never asks for the default export of the import
DeclaratorOfCall_AlwaysNamespace(tree, ag, params, moduleIsCommonJS, moduleTransformations, modules) ==
    LET p == Head(ag)
        node == Get(tree, p)
        stay == ChildPaths(tree, p) \o Tail(ag)
        importRawModuleId == parseImportCall(tree, node.init, p, params)
        w == parseImportCallWarn(tree, node.init, p, params)
        importModulePath == resolveModule(importRawModuleId, moduleTransformations)[2]
    IN  IF importRawModuleId = NoImport
        THEN [tree |-> tree, agenda |-> stay,
              warns |-> IF w = "" THEN <<>> ELSE <<w>>]
        ELSE IF moduleIsCommonJS
        THEN NoWarn(Put(tree, p, Declarator(node.id, RequireCall(importModulePath))),
                    ag)
        ELSE IF node.id.type # "Identifier"
        THEN [tree |-> tree, agenda |-> stay,
              warns |-> <<"Non-identifier imports are not implemented">>]
        ELSE LET r == ImportInsteadOf(tree, ag,
                                      ImportNamespaceSpecifier(Id(node.id.name)),
                                      importModulePath)
             IN  NoWarn(r.tree, r.agenda)

\* split traversal, VariableDeclarator(path), init a call
DeclaratorOfCall(tree, ag, params, moduleIsCommonJS, moduleTransformations, modules) ==
    LET p == Head(ag)
        node == Get(tree, p)
        stay == ChildPaths(tree, p) \o Tail(ag)
        importRawModuleId == parseImportCall(tree, node.init, p, params)
        w == parseImportCallWarn(tree, node.init, p, params)
        resolved == resolveModule(importRawModuleId, moduleTransformations)
        importModuleId == resolved[1]
        importModulePath == resolved[2]
        hasDefault == /\ importModuleId \in DOMAIN modules
                      /\ modules[importModuleId].hasDefaultExport
        specifier == IF hasDefault THEN ImportDefaultSpecifier(Id(node.id.name))
                     ELSE ImportNamespaceSpecifier(Id(node.id.name))
    IN  IF importRawModuleId = NoImport
        THEN [tree |-> tree, agenda |-> stay,
              warns |-> IF w = "" THEN <<>> ELSE <<w>>]
        ELSE IF moduleIsCommonJS
        THEN NoWarn(Put(tree, p, Declarator(node.id, RequireCall(importModulePath))),
                    ag)
        ELSE IF node.id.type # "Identifier"
        THEN [tree |-> tree, agenda |-> stay,
              warns |-> <<"Non-identifier imports are not implemented">>]
        ELSE LET r == ImportInsteadOf(tree, ag, specifier, importModulePath)
             IN  NoWarn(r.tree, r.agenda)

\* split traversal, VariableDeclarator(path), init a member of a call:
\* the edit and the entry it adds to importsToRename
DeclaratorOfMember(tree, ag, params, moduleTransformations) ==
    LET p == Head(ag)
        node == Get(tree, p)
        stay == ChildPaths(tree, p) \o Tail(ag)
        importRawModuleId == parseImportCall(tree, node.init.object, p, params)
        w == parseImportCallWarn(tree, node.init.object, p, params)
        importModulePath == resolveModule(importRawModuleId, moduleTransformations)[2]
        imported == node.init.property.name
        renamed == imported \notin reserved /\ ~hasBinding(tree, p, imported)
        local == IF renamed THEN imported ELSE node.id.name
        r == ImportInsteadOf(tree, ag, ImportSpecifier(Id(local), Id(imported)),
                             importModulePath)
    IN  IF importRawModuleId = NoImport
        THEN [tree |-> tree, agenda |-> stay, renames |-> <<>>,
              warns |-> IF w = "" THEN <<>> ELSE <<w>>]
        ELSE IF node.id.type # "Identifier"
        THEN [tree |-> tree, agenda |-> stay, renames |-> <<>>,
              warns |-> <<"Non-identifier imports are not implemented">>]
        ELSE IF node.init.property.type # "Identifier"
        THEN [tree |-> tree, agenda |-> stay, renames |-> <<>>,
              warns |-> <<"Non-identifier import accessors are not implemented">>]
        ELSE [tree |-> r.tree, agenda |-> r.agenda, warns |-> <<>>,
              renames |-> IF renamed THEN << <<node.id.name, imported>> >> ELSE <<>>]

\* split traversal, VariableDeclarator(path)
SplitVariableDeclarator ==
    /\ UNCHANGED cli
    /\ UNCHANGED transformation
    /\ pc = "split"
    /\ agenda # <<>>
    /\ LET p == Head(agenda)
           node == Get(cur.file, p)
       IN  /\ node.type = "VariableDeclarator"
           /\ IF node.init.type = "CallExpression"
              THEN LET r == DeclaratorOfCall(cur.file, agenda, chunkModuleParams,
                                             cur.isCommonJS,
                                             options.moduleTransformations,
                                             chunkModules)
                   IN  /\ cur' = [cur EXCEPT !.file = r.tree]
                       /\ agenda' = Advance(r.tree, r.agenda, SplitTypes)
                       /\ log' = Warns(cur.moduleId, r.warns)
                       /\ UNCHANGED importsToRename
              ELSE IF /\ node.init.type = "MemberExpression"
                      /\ node.init.object.type = "CallExpression"
              THEN LET r == DeclaratorOfMember(cur.file, agenda, chunkModuleParams,
                                               options.moduleTransformations)
                   IN  /\ cur' = [cur EXCEPT !.file = r.tree]
                       /\ agenda' = Advance(r.tree, r.agenda, SplitTypes)
                       /\ log' = Warns(cur.moduleId, r.warns)
                       /\ importsToRename' =
                             IF r.renames = <<>> THEN importsToRename
                             ELSE Assoc(importsToRename, r.renames[1][1],
                                        r.renames[1][2])
              ELSE /\ agenda' = Descend(cur.file, agenda, SplitTypes)
                   /\ UNCHANGED <<cur, log, importsToRename>>
    /\ UNCHANGED <<chunkSrc, options, pc, m, table, idx, chunkModuleParams,
                   chunkModules, keyOrder, entries, graph, result>>

\* the names the crawl records as references or bindings below n
RECURSIVE NamesIn(_)
RECURSIVE NamesInKeys(_, _)
NamesInKeys(n, ks) ==
    IF ks = <<>> THEN {}
    ELSE LET k == Head(ks)
             here == IF k.list
                     THEN UNION {NamesIn(n[k.f][j]) : j \in 1..Len(n[k.f])}
                     ELSE NamesIn(n[k.f])
         IN  here \cup NamesInKeys(n, Tail(ks))
NamesIn(n) ==
    CASE n.type = "Identifier" -> {n.name}
      [] n.type = "MemberExpression" /\ ~n.computed -> NamesInKeys(n, <<K("object")>>)
      [] n.type = "ObjectProperty" /\ ~n.computed -> NamesInKeys(n, <<K("value")>>)
      [] n.type = "LabeledStatement" -> NamesInKeys(n, <<K("body")>>)
      [] OTHER -> NamesInKeys(n, VisitorKeys(n.type))

\* the candidates of scope.generateUid("exports"), in the order it tries them
UidCandidates == <<"_exports", "_exports2", "_exports3", "_exports4">>

\* scope.generateUidIdentifier("exports") from the scope of the node at p
generateUid(tree, p) ==
    LET free == {j \in 1..Len(UidCandidates) :
                    /\ ~hasBinding(tree, p, UidCandidates[j])
                    /\ UidCandidates[j] \notin NamesIn(tree)}
    IN  UidCandidates[Min(free)]

\* module.exports = value
ModuleExports(value) == Assign("=", Member(Id("module"), Id("exports")), value)

\* DefaultExportAssignment that inserts the export before the declaration
DefaultExportAssignment_ExportFirst(tree, ag, params, moduleIsCommonJS, esmDefaultExports) ==
    LET p == Head(ag)
        defaultExport == getDefaultExport(tree, p, params)
        w == getDefaultExportWarn(tree, p, params)
        exportsId == generateUid(tree, p)
        ins == InsertBefore(tree, ag, getStatementParent(tree, p),
                            <<ExportDefault(Id(exportsId)),
                              VarDecl("const", <<Declarator(Id(exportsId),
                                                            defaultExport)>>)>>)
        named == Put(ins.tree, Head(ins.agenda), Id(exportsId))
    IN  IF defaultExport = Null
        THEN [tree |-> tree, agenda |-> ChildPaths(tree, p) \o Tail(ag),
              warns |-> IF w = "" THEN <<>> ELSE <<w>>]
        ELSE IF moduleIsCommonJS \/ ~esmDefaultExports
        THEN NoWarn(Put(tree, p, ModuleExports(defaultExport)), ag)
        ELSE IF Get(tree, Front(p)).type = "ExpressionStatement"
        THEN NoWarn(Put(tree, Front(p), ExportDefault(defaultExport)),
                    <<Front(p)>> \o Tail(ag))
        ELSE NoWarn([named EXCEPT !.uids = named.uids \cup {exportsId}],
                    ins.agenda)

\* split traversal, AssignmentExpression(path)
DefaultExportAssignment(tree, ag, params, moduleIsCommonJS, esmDefaultExports) ==
    LET p == Head(ag)
        defaultExport == getDefaultExport(tree, p, params)
        w == getDefaultExportWarn(tree, p, params)
        exportsId == generateUid(tree, p)
        ins == InsertBefore(tree, ag, getStatementParent(tree, p),
                            <<VarDecl("const", <<Declarator(Id(exportsId),
                                                            defaultExport)>>),
                              ExportDefault(Id(exportsId))>>)
        named == Put(ins.tree, Head(ins.agenda), Id(exportsId))
    IN  IF defaultExport = Null
        THEN [tree |-> tree, agenda |-> ChildPaths(tree, p) \o Tail(ag),
              warns |-> IF w = "" THEN <<>> ELSE <<w>>]
        ELSE IF moduleIsCommonJS \/ ~esmDefaultExports
        THEN NoWarn(Put(tree, p, ModuleExports(defaultExport)), ag)
        ELSE IF Get(tree, Front(p)).type = "ExpressionStatement"
        THEN NoWarn(Put(tree, Front(p), ExportDefault(defaultExport)),
                    <<Front(p)>> \o Tail(ag))
        ELSE NoWarn([named EXCEPT !.uids = named.uids \cup {exportsId}],
                    ins.agenda)

SplitAssignmentExpression ==
    /\ UNCHANGED cli
    /\ UNCHANGED transformation
    /\ pc = "split"
    /\ agenda # <<>>
    /\ Get(cur.file, Head(agenda)).type = "AssignmentExpression"
    /\ LET r == DefaultExportAssignment(cur.file, agenda, chunkModuleParams,
                                        cur.isCommonJS, options.esmDefaultExports)
       IN  /\ cur' = [cur EXCEPT !.file = r.tree]
           /\ agenda' = Advance(r.tree, r.agenda, SplitTypes)
           /\ log' = Warns(cur.moduleId, r.warns)
    /\ UNCHANGED <<chunkSrc, options, pc, m, table, idx, chunkModuleParams,
                   chunkModules, keyOrder, entries, importsToRename, graph,
                   result>>

\* the name the Identifier visitor leaves on an identifier at p
IdentifierName(tree, p, params, renames) ==
    LET name == Get(tree, p).name
    IN  IF hasBinding(tree, p, name) THEN name
        ELSE IF name \in DOMAIN renames /\ renames[name] # "" THEN renames[name]
        ELSE IF name = ParamAt(params, 1) THEN "exports"
        ELSE name

\* split traversal, Identifier(path)
SplitIdentifier ==
    /\ UNCHANGED cli
    /\ UNCHANGED transformation
    /\ pc = "split"
    /\ agenda # <<>>
    /\ Get(cur.file, Head(agenda)).type = "Identifier"
    /\ LET t == Put(cur.file, Head(agenda),
                    Id(IdentifierName(cur.file, Head(agenda), chunkModuleParams,
                                      importsToRename)))
       IN  /\ cur' = [cur EXCEPT !.file = t]
           /\ agenda' = Descend(t, agenda, SplitTypes)
    /\ UNCHANGED <<chunkSrc, options, pc, m, table, idx, chunkModuleParams,
                   chunkModules, keyOrder, entries, importsToRename, graph,
                   log, result>>

\* split traversal, ExportSpecifier(path)
SplitExportSpecifier ==
    /\ UNCHANGED cli
    /\ UNCHANGED transformation
    /\ pc = "split"
    /\ agenda # <<>>
    /\ LET node == Get(cur.file, Head(agenda))
       IN  /\ node.type = "ExportSpecifier"
           /\ IF node.exported.type # "Identifier"
              THEN /\ log' = Warn(cur.moduleId,
                                       "Non-identifier exports should be unreachable")
                   /\ agenda' = Descend(cur.file, agenda, SplitTypes)
                   /\ UNCHANGED cur
              ELSE LET r == rename(cur.file, Head(agenda), node.local.name,
                                   node.exported.name)
                   IN  /\ cur' = [cur EXCEPT !.file = r.tree]
                       /\ agenda' = Descend(r.tree, agenda, SplitTypes)
                       /\ log' = WarnIf(cur.moduleId, r.warn)
    /\ UNCHANGED <<chunkSrc, options, pc, m, table, idx, chunkModuleParams,
                   chunkModules, keyOrder, entries, importsToRename, graph,
                   result>>

(***************************************************************************)
(* The module transformation traversal of the second loop                  *)
(***************************************************************************)
\* moduleTransformations?.[rawModuleId]?.renameVariables, ordinal -> name
renameVariablesOf(moduleTransformations, rawModuleId) ==
    IF /\ rawModuleId \in DOMAIN moduleTransformations
       /\ "renameVariables" \in DOMAIN moduleTransformations[rawModuleId]
    THEN moduleTransformations[rawModuleId].renameVariables
    ELSE EmptyMap

\* the condition on which the traversal runs for a module
RunsTransformation(opts, rawModuleId) ==
    \/ opts.includeVariableDeclarationComments
    \/ opts.includeVariableReferenceComments
    \/ DOMAIN renameVariablesOf(opts.moduleTransformations, rawModuleId) # {}

\* the scope into which the identifier at q declares its name when it is the
\* id of a declarator or of a function declaration or a parameter, NoPath
\* for an identifier anywhere else
DeclaringScope(tree, q) ==
    LET scopesAbove(r) == {sc \in ProperPrefixes(r) :
                             Get(tree, sc).type \in FunctionTypes \cup {"Program"}}
    IN  IF q = <<>> THEN NoPath
        ELSE IF /\ Get(tree, Front(q)).type \in {"VariableDeclarator",
                                                  "FunctionDeclaration"}
                /\ Last(q).f = "id"
        THEN Innermost(scopesAbove(Front(q)))
        ELSE IF Get(tree, Front(q)).type \in FunctionTypes /\ Last(q).f = "params"
        THEN Front(q)
        ELSE NoPath

\* binding.identifier for the binding of name in the scope at sc: the first
\* identifier, in traversal order, that declares name into sc
bindingIdentifier(tree, sc, name) ==
    LET ds == SelectSeq(AllPaths(tree, <<>>),
                        LAMBDA q : /\ Get(tree, q).type = "Identifier"
                                   /\ Get(tree, q).name = name
                                   /\ DeclaringScope(tree, q) = sc)
    IN  IF ds = <<>> THEN NoPath ELSE Head(ds)

\* path.addComment("leading", text) for the node at p
addComment(tree, p, text) ==
    LET node == Get(tree, p)
        had == IF "leadingComments" \in DOMAIN node THEN node.leadingComments
               ELSE <<>>
    IN  Put(tree, p, [f \in DOMAIN node \cup {"leadingComments"} |->
                         IF f = "leadingComments" THEN Append(had, text)
                         ELSE node[f]])

\* the start of the module transformation traversal
TransformModule ==
    /\ UNCHANGED cli
    /\ UNCHANGED transformation
    /\ pc = "split"
    /\ agenda = <<>>
    /\ RunsTransformation(options, cur.rawModuleId)
    /\ log' = Debug(cur.moduleId, "Running module transformation traversal")
    /\ agenda' = Advance(cur.file, << <<>> >>, {"Identifier"})
    /\ pc' = "transform"
    /\ UNCHANGED <<chunkSrc, options, m, table, idx, chunkModuleParams,
                   chunkModules, keyOrder, cur, entries, importsToRename, graph,
                   result>>

\* module transformation traversal, Identifier(path)
TransformIdentifier ==
    /\ UNCHANGED cli
    /\ pc = "transform"
    /\ agenda # <<>>
    /\ LET p == Head(agenda)
           node == Get(cur.file, p)
           scopes == BindingScopes(cur.file, p, node.name)
           binding == IF scopes = {} THEN NoPath ELSE Innermost(scopes)
           declaration == bindingIdentifier(cur.file, binding, node.name)
           variableId == moduleVariableCount
           renames == renameVariablesOf(options.moduleTransformations,
                                        cur.rawModuleId)
           declared == IF options.includeVariableDeclarationComments
                       THEN addComment(cur.file, p,
                                       "Variable dec " \o ToString(variableId))
                       ELSE cur.file
           r == rename(declared, p, node.name,
                       IF variableId \in DOMAIN renames THEN renames[variableId]
                       ELSE "")
           referred == addComment(cur.file, p,
                          "Variable ref " \o
                          (IF declaration \in DOMAIN moduleVariables
                           THEN ToString(moduleVariables[declaration])
                           ELSE "undefined"))
       IN  IF binding = NoPath
           THEN UNCHANGED <<cur, log, moduleVariables, moduleVariableCount>>
           ELSE IF declaration = p
           THEN /\ cur' = [cur EXCEPT !.file = r.tree]
                /\ moduleVariables' = Assoc(moduleVariables, p, variableId)
                /\ moduleVariableCount' = moduleVariableCount + 1
                /\ log' = WarnIf(cur.moduleId, r.warn)
           ELSE IF options.includeVariableReferenceComments
           THEN /\ cur' = [cur EXCEPT !.file = referred]
                /\ UNCHANGED <<log, moduleVariables, moduleVariableCount>>
           ELSE UNCHANGED <<cur, log, moduleVariables, moduleVariableCount>>
    /\ agenda' = Advance(cur.file, Tail(agenda), {"Identifier"})
    /\ UNCHANGED <<chunkSrc, options, pc, m, table, idx, chunkModuleParams,
                   chunkModules, keyOrder, entries, importsToRename, graph,
                   result>>

\* the serialisation generate and format give for a tree
formattedModuleCode(tree) == [formatted |-> tree]

\* SecondLoop taken while chunkModulesLoop still has entries to examine
SecondLoop_Early ==
    /\ UNCHANGED cli
    /\ UNCHANGED transformation
    /\ pc = "loop"
    /\ entries' = ObjectEntries(keyOrder)
    /\ pc' = "next"
    /\ UNCHANGED <<chunkSrc, options, m, table, idx, chunkModuleParams,
                   chunkModules, keyOrder, cur, agenda, importsToRename, graph,
                   log, result>>

\* the end of chunkModulesLoop: Object.entries(chunkModules) is taken once
SecondLoop ==
    /\ UNCHANGED cli
    /\ UNCHANGED transformation
    /\ pc = "loop"
    /\ idx > Len(table)
    /\ entries' = ObjectEntries(keyOrder)
    /\ pc' = "next"
    /\ UNCHANGED <<chunkSrc, options, m, table, idx, chunkModuleParams,
                   chunkModules, keyOrder, cur, agenda, importsToRename, graph,
                   log, result>>

\* one iteration of the second loop up to the start of the split traversal
SplitModule ==
    /\ UNCHANGED cli
    /\ moduleVariables' = EmptyMap
    /\ moduleVariableCount' = 0
    /\ pc = "next"
    /\ entries # <<>>
    /\ LET moduleId == Head(entries)
           module == chunkModules[moduleId]
       IN  /\ cur' = [moduleId |-> moduleId, rawModuleId |-> module.rawModuleId,
                      entry |-> module.entry, file |-> module.file,
                      isCommonJS |-> module.isCommonJS,
                      hasDefaultExport |-> module.hasDefaultExport]
           /\ agenda' = Advance(module.file, << <<>> >>, SplitTypes)
    /\ importsToRename' = EmptyMap
    /\ entries' = Tail(entries)
    /\ log' = Debug(Head(entries), "Running module split traversal")
    /\ pc' = "split"
    /\ UNCHANGED <<chunkSrc, options, m, table, idx, chunkModuleParams,
                   chunkModules, keyOrder, graph, result>>

\* the end of the traversals of a module: generate, format,
\* mergeNodeAttributes.  The tree of the record in chunkModules is the tree
\* the traversals edited.
SplitDone ==
    /\ UNCHANGED cli
    /\ UNCHANGED transformation
    /\ \/ pc = "split" /\ ~RunsTransformation(options, cur.rawModuleId)
       \/ pc = "transform"
    /\ agenda = <<>>
    /\ chunkModules' = [chunkModules EXCEPT ![cur.moduleId].file = cur.file]
    /\ graph' = mergeNodeAttributes(graph, cur.moduleId,
                    [file |-> cur.file, source |-> formattedModuleCode(cur.file)])
    /\ pc' = "next"
    /\ UNCHANGED <<chunkSrc, options, m, table, idx, chunkModuleParams, keyOrder,
                   cur, agenda, entries, importsToRename, log, result>>

\* return { id: chunkId, modules: chunkModules }
ReturnChunk ==
    /\ UNCHANGED cli
    /\ UNCHANGED transformation
    /\ pc = "next"
    /\ entries = <<>>
    /\ result' = [kind |-> "chunk", id |-> parseInt(m.m4), modules |-> chunkModules]
    /\ pc' = "done"
    /\ UNCHANGED <<chunkSrc, options, m, table, idx, chunkModuleParams,
                   chunkModules, keyOrder, cur, agenda, entries, importsToRename,
                   graph, log>>

\* chunk.chunkModules as the caller reads it: the returned object has the
\* fields id and modules, and a for-in loop over undefined has no iteration
ChunkModulesOf(chunk) ==
    IF "chunkModules" \in DOMAIN chunk THEN chunk.chunkModules ELSE EmptyMap

\* the caller's loop body after the call has returned
UnbundleChunk ==
    /\ UNCHANGED transformation
    /\ pc = "done"
    /\ result.kind \in {"null", "chunk"}
    /\ IF result.kind = "null"
       THEN /\ log' = Warn("", "Invalid chunk")
            /\ UNCHANGED <<chunkCount, importedModules, declaredModules>>
       ELSE LET modules == ChunkModulesOf(result)
            IN  /\ chunkCount' = chunkCount + 1
                /\ importedModules' =
                      importedModules \cup
                      UNION {modules[id].importedModules : id \in DOMAIN modules}
                /\ declaredModules' =
                      declaredModules \cup {modules[id].id : id \in DOMAIN modules}
                /\ UNCHANGED log
    /\ fileIdx' = fileIdx + 1
    /\ pc' = "files"
    /\ UNCHANGED <<chunkSrc, options, m, table, idx, chunkModuleParams,
                   chunkModules, keyOrder, cur, agenda, entries, importsToRename,
                   graph, result, files, undeclaredModules>>

\* the caller's loop goes on to the next file, or ends with the difference
\* of the two sets
UnbundleNext ==
    /\ UNCHANGED transformation
    /\ pc = "files"
    /\ IF fileIdx <= Len(files)
       THEN /\ chunkSrc' = [text |-> files[fileIdx].text, frag |-> files[fileIdx].frag]
            /\ options' = files[fileIdx].options
            /\ pc' = "match"
            /\ m' = [matched |-> FALSE, m4 |-> "", m5 |-> <<>>]
            /\ table' = <<>>
            /\ idx' = 1
            /\ chunkModuleParams' = <<>>
            /\ chunkModules' = EmptyMap
            /\ keyOrder' = <<>>
            /\ cur' = NoModule
            /\ agenda' = <<>>
            /\ entries' = <<>>
            /\ importsToRename' = EmptyMap
            /\ result' = NoResult
            /\ UNCHANGED <<undeclaredModules, log>>
       ELSE /\ undeclaredModules' = importedModules \ declaredModules
            /\ log' = IF undeclaredModules' # {}
                      THEN Warn("", "Some modules were imported but not declared")
                      ELSE log
            /\ pc' = "end"
            /\ UNCHANGED <<chunkSrc, options, m, table, idx, chunkModuleParams,
                           chunkModules, keyOrder, cur, agenda, entries,
                           importsToRename, result>>
    /\ UNCHANGED <<graph, files, fileIdx, importedModules, declaredModules,
                   chunkCount>>

Next ==
    \/ Match
    \/ ParseChunk
    \/ ChunkModulesLoop
    \/ ScanCallExpression
    \/ ScanVariableDeclarator
    \/ ScanAssignmentExpression
    \/ ScanDone
    \/ SecondLoop
    \/ SplitModule
    \/ SplitCallExpression
    \/ SplitVariableDeclarator
    \/ SplitAssignmentExpression
    \/ SplitIdentifier
    \/ SplitExportSpecifier
    \/ TransformModule
    \/ TransformIdentifier
    \/ SplitDone
    \/ ReturnChunk
    \/ UnbundleChunk
    \/ UnbundleNext

(***************************************************************************)
(* Inputs: chunk texts, module tables and options                          *)
(***************************************************************************)
Ids(names) == [j \in 1..Len(names) |-> Id(names[j])]

Factory(names, stmts) == FunctionExpr(Ids(names), FALSE, stmts)

\* ( n1 = n2 op dflt ) .push( [[ id ], { inner } tail
Wrapper(n1, n2, op, dflt, id, inner, tail) ==
    <<"(", n1, "=", n2, op, dflt, ")", ".push(", "[[", id, "],", "{">>
        \o inner \o <<"}">> \o tail

Names == {"self.webpackChunk", "self.webpackChunk_app", "window.webpackChunk"}

\* what stands between the braces of the wrapper
Inners ==
    {<<"<MODULES>">>,
     <<" ">>,
     <<>>,
     <<"a", "b">>,
     <<" ", "}", ")", ";", "(", "{", " ">>,
     <<" ", "}", ")", "+", "(", "{", " ">>,
     <<" ", "}", ".x", ",", "{", " ">>,
     <<"<MODULES>", "}", "]", ")", ";", "(", "self.webpackChunk", "=",
       "self.webpackChunk", "||", "[]", ")", ".push(", "[[", "42", "],", "{",
       "<MODULES>">>}

WrapperTexts ==
    {Wrapper(n1, n2, op, dflt, id, inner, <<"]", ")", ";">>) :
        n1 \in Names, n2 \in Names, op \in {"||", "&&"}, dflt \in {"[]", "{}"},
        id \in {"7", "x"}, inner \in Inners}
        \cup
    {prefix \o Wrapper(n, n, "||", "[]", "42", inner, tail) :
        prefix \in {<<>>, <<"/*!*/">>}, n \in Names, inner \in Inners,
        tail \in {<<"]", ")", ";">>, <<"]", ")">>, <<"]", ")", ";", "x", ";">>}}

GoodText == Wrapper("self.webpackChunk", "self.webpackChunk", "||", "[]", "7",
                    <<"<MODULES>">>, <<"]", ")", ";">>)

EExports == Member(Id("e"), Id("exports"))

Require(k) == Call(Id("r"), <<Num(k)>>)

DefaultExportOf(v) == ExprStmt(Assign("=", EExports, v))

DefinerOf(props) == Call(Member(Id("r"), Id("d")), <<Id("t"), Obj(props)>>)

Getter(key, name) == Prop(Id(key), Arrow(<<>>, FALSE, Id(name)))

ReturnGetter(key, name) ==
    Prop(Id(key), FunctionExpr(<<>>, FALSE, <<Return(Id(name))>>))

\* the statements module bodies are put together from; the slots are e, t, r
Statements ==
    {DefaultExportOf(Id("x")),
     DefaultExportOf(Obj(<<Prop(Id("a"), Num(1))>>)),
     ExprStmt(Assign("+=", EExports, Id("x"))),
     ExprStmt(Assign("=", Member(Id("t"), Id("foo")), Num(1))),
     FunctionDecl("f", <<Id("e")>>, FALSE, <<DefaultExportOf(Id("x"))>>),
     Var("y", Assign("=", EExports, Id("x"))),
     ExprStmt(DefinerOf(<<Getter("foo", "bar"), Getter("default", "baz")>>)),
     ExprStmt(SeqExpr(<<Call(Member(Id("r"), Id("r")), <<Id("t")>>),
                        DefinerOf(<<ReturnGetter("bar", "bar"),
                                    Prop(Id("v"), Arrow(<<>>, FALSE, Block(<<>>)))>>)>>)),
     VarDecl("var", <<Declarator(Id("bar"), Num(1)), Declarator(Id("baz"), Num(2))>>),
     Var("x", Require(2)),
     Var("w", Require(3)),
     Var("u", Require(9)),
     Var("z", Member(Require(2), Id("p"))),
     ExprStmt(Require(3)),
     ExprStmt(Call(Id("x"), <<Id("z"), Id("t")>>)),
     FunctionDecl("g", <<>>, FALSE, <<Return(Require(2))>>),
     FunctionDecl("g", <<>>, FALSE, <<Var("x", Require(2)), Return(Id("x"))>>),
     FunctionDecl("g", <<>>, FALSE, <<Var("z", Member(Require(2), Id("p")))>>),
     FunctionDecl("h", <<>>, TRUE, <<ExprStmt(Require(3))>>),
     FunctionDecl("h", <<>>, TRUE, <<Return(Arrow(<<>>, FALSE, Require(3)))>>),
     FunctionDecl("k", <<Id("r")>>, FALSE, <<ExprStmt(Require(3))>>)}

\* the statements that come second in a body of two
Closers ==
    {DefaultExportOf(Id("x")),
     Var("e", Member(Require(2), Id("p"))),
     Var("x", Require(2)),
     ExprStmt(DefinerOf(<<Getter("foo", "bar"), Getter("default", "baz")>>)),
     ExprStmt(Call(Id("x"), <<Id("z"), Id("t")>>))}

Singles == {<<s>> : s \in Statements}

Pairs == {<<s1, s2>> : s1 \in Statements, s2 \in Closers}

\* module 2 has a default export, module 3 has none
Companions ==
    <<Prop(Num(2), Factory(<<"e", "t", "r">>, <<DefaultExportOf(Id("x"))>>)),
      Prop(Num(3), Factory(<<"e", "t", "r">>, <<Var("k", Num(1))>>))>>

ScenarioTables ==
    {<<Prop(Num(1), Factory(<<"e", "t", "r">>, body))>> \o Companions :
        body \in Singles \cup Pairs}
        \cup
    {Companions \o <<Prop(Num(1), Factory(<<"e", "t", "r">>, body))>> :
        body \in Singles}

\* the factories the validation tables are put together from
Values ==
    {Factory(<<"e", "t", "r">>, <<DefaultExportOf(Id("x"))>>),
     Factory(<<"e", "t">>, <<Var("k", Num(1))>>),
     Factory(<<"e", "x", "r">>, <<>>),
     Factory(<<"q">>, <<>>),
     Factory(<<"e", "t", "r", "q">>, <<>>),
     FunctionExpr(<<Id("e"), ObjPattern(<<Prop(Id("t"), Id("t"))>>)>>, FALSE, <<>>),
     Arrow(<<Id("e"), Id("t"), Id("r")>>, FALSE, Num(1)),
     Num(0)}

\* the key of the entry at position j
KeyAt(j) == CASE j = 2 -> Str("b") [] j = 3 -> Id("c") [] OTHER -> Num(j)

MaxEntries == 3

Keyed(vs) == [j \in 1..Len(vs) |-> Prop(KeyAt(j), vs[j])]

ValidationTables ==
    UNION {{Keyed(vs) : vs \in [1..n -> Values]} : n \in 1..MaxEntries}

\* entries that are rejected for their property kind or key, among accepted ones
OddTables ==
    {<<Spread(Id("rest")), Prop(Num(1), Factory(<<"e">>, <<>>))>>,
     <<Prop(Num(1), Factory(<<>>, <<DefaultExportOf(Id("x"))>>)),
       Prop(Num(2), Factory(<<"e", "t", "r">>, <<DefaultExportOf(Id("x"))>>))>>,
     <<Prop(BigInt(5), Factory(<<"e">>, <<>>)), Prop(Num(1), Factory(<<"e">>, <<>>))>>,
     <<>>}

DefaultOptions ==
    [esmDefaultExports |-> TRUE, includeVariableDeclarationComments |-> FALSE,
     includeVariableReferenceComments |-> FALSE,
     moduleTransformations |-> EmptyMap, graph |-> "directed"]

\* overrides: 1 and 2 are renamed, 3 has the absolute flag and no rename
Renamed(absolute) ==
    [x \in {"1", "2", "3"} |->
        [renameModule |-> CASE x = "1" -> "app" [] x = "2" -> "lib" [] OTHER -> "",
         importAsAbsolute |-> IF x = "3" THEN TRUE ELSE absolute]]

OptionsSet ==
    {[DefaultOptions EXCEPT !.esmDefaultExports = FALSE],
     [DefaultOptions EXCEPT !.moduleTransformations = Renamed(FALSE)],
     [DefaultOptions EXCEPT !.moduleTransformations = Renamed(TRUE),
                            !.graph = "multi"],
     [DefaultOptions EXCEPT !.graph = "none"]}

SingleTables ==
    {<<Prop(Num(1), Factory(<<"e", "t", "r">>, <<s>>))>> \o Companions :
        s \in Statements}

\* modules whose exports ask for renames: to a name that is bound, to a
\* reserved word, and to a name a nested function binds
RenameBodies ==
    {<<VarDecl("var", <<Declarator(Id("bar"), Num(1)), Declarator(Id("foo"), Num(2))>>),
       ExprStmt(DefinerOf(<<Getter("foo", "bar"), Getter("qux", "foo")>>))>>,
     <<VarDecl("var", <<Declarator(Id("bar"), Num(1)), Declarator(Id("_new"), Num(2))>>),
       ExprStmt(DefinerOf(<<Getter("new", "bar"), Getter("class", "_new")>>))>>,
     <<FunctionDecl("bar", <<Id("foo")>>, FALSE, <<Return(Id("bar"))>>),
       ExprStmt(DefinerOf(<<Getter("foo", "bar")>>))>>}

RenameTables ==
    {<<Prop(Num(1), Factory(<<"e", "t", "r">>, body))>> : body \in RenameBodies}

\* a module whose exports-definer call has properties of every kind
ExportProperties ==
    <<Getter("foo", "bar"),
      Prop(Id("a"), Num(1)),
      Prop(Id("b"), Arrow(<<Id("q")>>, FALSE, Id("bar"))),
      Prop(Id("v"), Arrow(<<>>, FALSE, Block(<<>>))),
      Prop(Id("c"), Arrow(<<>>, FALSE, Num(1))),
      Prop(Id("d"), FunctionExpr(<<>>, FALSE, <<Return(Num(1))>>)),
      Prop(Id("g"), FunctionExpr(<<>>, FALSE, <<Return(Null)>>)),
      Prop(Id("h"), FunctionExpr(<<>>, FALSE, <<ExprStmt(Id("bar")), Return(Id("bar"))>>)),
      Getter("default", "baz")>>

ExportTables ==
    {<<Prop(Num(1), Factory(<<"e", "t", "r">>,
          <<VarDecl("var", <<Declarator(Id("bar"), Num(1)), Declarator(Id("baz"), Num(2))>>),
            ExprStmt(DefinerOf(ExportProperties)),
            ExprStmt(Require(3))>>))>>}

\* modules that take a property of a required module into a local: used
\* before the declaration, next to a function whose parameter has the
\* property's name, with the property's name bound, with a reserved
\* property name, next to a parameter of the local's name, and in a CommonJS
\* module
ImportBodies ==
    {<<DefaultExportOf(Obj(<<>>)), Var("z", Member(Require(2), Id("p")))>>,
     <<FunctionDecl("g", <<>>, FALSE, <<Return(Id("z"))>>),
       Var("z", Member(Require(2), Id("p")))>>,
     <<Var("z", Member(Require(2), Id("p"))),
       FunctionDecl("f", <<Id("p")>>, FALSE, <<Return(Id("z"))>>)>>,
     <<Var("p", Num(1)),
       Var("z", Member(Require(2), Id("p"))),
       ExprStmt(Call(Id("x"), <<Id("z"), Id("p")>>))>>,
     <<Var("z", Member(Require(2), Id("default"))),
       ExprStmt(Call(Id("x"), <<Id("z")>>))>>,
     <<Var("z", Member(Require(2), Id("p"))),
       ExprStmt(Call(Id("x"), <<Id("z"), Id("y")>>)),
       FunctionDecl("k", <<Id("z")>>, FALSE, <<Return(Id("z"))>>)>>}

ImportTables ==
    {<<Prop(Num(1), Factory(<<"e", "t", "r">>, body))>> \o Companions :
        body \in ImportBodies}

\* modules whose default-export assignment is part of a larger expression:
\* with the first candidate of the fresh name bound, and inside a function
DefaultBodies ==
    {<<Var("_exports", Num(1)), Var("y", Assign("=", EExports, Id("x")))>>,
     <<FunctionDecl("g", <<>>, FALSE, <<Return(Assign("=", EExports, Id("x")))>>)>>,
     <<ExprStmt(Call(Id("x"), <<Assign("=", EExports, Obj(<<>>))>>))>>}

DefaultTables ==
    {<<Prop(Num(1), Factory(<<"e", "t", "r">>, body))>> : body \in DefaultBodies}

\* modules for the module transformation traversal: declarations at the
\* top and in a function, and a use before an import
TransformBodies ==
    {<<VarDecl("var", <<Declarator(Id("a"), Num(1)), Declarator(Id("b"), Num(2))>>),
       FunctionDecl("f", <<Id("c")>>, FALSE,
                    <<Return(Call(Id("a"), <<Id("c"), Id("b")>>))>>),
       ExprStmt(Call(Id("f"), <<Id("a")>>))>>,
     <<ExprStmt(Call(Id("g"), <<>>)),
       Var("x", Require(2)),
       Var("y", Num(1)),
       FunctionDecl("g", <<>>, FALSE, <<Return(Call(Id("x"), <<Id("y")>>))>>)>>}

TransformTables ==
    {<<Prop(Num(1), Factory(<<"e", "t", "r">>, body))>> \o Companions :
        body \in TransformBodies}

\* renames by ordinal for module 1: one that applies, one to a bound name,
\* none for ordinal 2, one for ordinal 3
VariableRenames(byOrdinal) ==
    [x \in {"1"} |-> [renameModule |-> "", importAsAbsolute |-> FALSE,
                      renameVariables |-> byOrdinal]]

TransformOptions ==
    {[DefaultOptions EXCEPT !.moduleTransformations =
         VariableRenames(0 :> "first" @@ 1 :> "f" @@ 3 :> "third")],
     [DefaultOptions EXCEPT !.moduleTransformations = VariableRenames(EmptyMap)],
     [DefaultOptions EXCEPT !.includeVariableDeclarationComments = TRUE],
     [DefaultOptions EXCEPT !.includeVariableReferenceComments = TRUE],
     [DefaultOptions EXCEPT !.includeVariableDeclarationComments = TRUE,
                            !.includeVariableReferenceComments = TRUE,
                            !.moduleTransformations =
                                VariableRenames(1 :> "second")]}

\* modules of a chunk whose slots are spelled module, exports and require
PlainBodies ==
    {<<ExprStmt(Assign("=", Member(Id("module"), Id("exports")), Obj(<<>>)))>>,
     <<ExprStmt(Assign("=", Member(Id("module"), Id("exports")), Id("x"))),
       ExprStmt(Assign("=", Member(Id("exports"), Id("foo")), Num(1))),
       ExprStmt(Call(Id("require"), <<Num(3)>>))>>}

PlainTables ==
    {<<Prop(Num(1), Factory(<<"module", "exports", "require">>, body))>> :
        body \in PlainBodies}

\* a module with two parameters that calls the require slot, before and
\* after the module that gives the slot its name
OrderTables ==
    {<<Prop(Num(1), Factory(<<"e", "t">>, <<ExprStmt(Require(2))>>)),
       Prop(Num(2), Factory(<<"e", "t", "r">>, <<Var("x", Require(1))>>))>>,
     <<Prop(Num(2), Factory(<<"e", "t", "r">>, <<Var("x", Require(1))>>)),
       Prop(Num(1), Factory(<<"e", "t">>, <<ExprStmt(Require(2))>>))>>}

\* modules with identifiers that are spelled like the exports slot or like a
\* renamed import local and are no variable references: a property name, an
\* object key, a label; and with a binding of the slot's name
SpellingBodies ==
    {<<ExprStmt(Member(Id("x"), Id("t")))>>,
     <<ExprStmt(Assign("=", Id("y"), Obj(<<Prop(Id("t"), Num(1))>>)))>>,
     <<Labeled("t", ExprStmt(Call(Id("x"), <<Id("t")>>)))>>,
     <<Var("z", Member(Require(2), Id("p"))), ExprStmt(Member(Id("x"), Id("z")))>>,
     <<Var("t", Num(1)), ExprStmt(Call(Id("x"), <<Id("t")>>))>>}

SpellingTables ==
    {<<Prop(Num(1), Factory(<<"e", "t", "r">>, body))>> \o Companions :
        body \in SpellingBodies}

\* overrides under which two raw keys get one final identifier: 1 is renamed
\* to the raw key of another entry, and 1 and 2 are renamed alike
CollidingOverrides ==
    {[x \in {"1"} |-> [renameModule |-> "2", importAsAbsolute |-> FALSE]],
     [x \in {"1", "2"} |-> [renameModule |-> "lib", importAsAbsolute |-> FALSE]]}

CollidingTable ==
    <<Prop(Num(1), Factory(<<"e", "t", "r">>, <<Var("x", Require(2))>>)),
      Prop(Num(2), Factory(<<"e", "t", "r">>, <<DefaultExportOf(Id("x"))>>))>>

Inputs ==
    {[text |-> w, frag |-> <<Prop(Num(1), Factory(<<"e", "t", "r">>, <<>>))>>,
      options |-> DefaultOptions] : w \in WrapperTexts}
        \cup
    {[text |-> GoodText, frag |-> tb, options |-> DefaultOptions] :
        tb \in ScenarioTables \cup ValidationTables \cup OddTables \cup RenameTables
                  \cup ExportTables \cup ImportTables \cup OrderTables
                  \cup SpellingTables}
        \cup
    {[text |-> GoodText, frag |-> tb, options |-> o] :
        tb \in SingleTables, o \in OptionsSet}
        \cup
    {[text |-> GoodText, frag |-> tb, options |-> o] :
        tb \in DefaultTables,
        o \in {DefaultOptions, [DefaultOptions EXCEPT !.esmDefaultExports = FALSE]}}
        \cup
    {[text |-> GoodText, frag |-> tb, options |-> o] :
        tb \in TransformTables, o \in TransformOptions}
        \cup
    {[text |-> GoodText, frag |-> tb, options |-> o] :
        tb \in PlainTables,
        o \in {DefaultOptions, [DefaultOptions EXCEPT !.esmDefaultExports = FALSE]}}
        \cup
    {[text |-> GoodText, frag |-> CollidingTable,
      options |-> [DefaultOptions EXCEPT !.moduleTransformations = mt]] :
        mt \in CollidingOverrides}

CliOptions(kind) == [DefaultOptions EXCEPT !.graph = kind]

\* chunk 7: module 1 requires 2 and 9, module 2 has a default export
ChunkA(kind) ==
    [text |-> GoodText,
     frag |-> <<Prop(Num(1), Factory(<<"e", "t", "r">>,
                                     <<Var("x", Require(2)), Var("u", Require(9))>>)),
                Prop(Num(2), Factory(<<"e", "t", "r">>, <<DefaultExportOf(Id("x"))>>))>>,
     options |-> CliOptions(kind)]

\* chunk 42: module 4 requires 9 once and 2 twice
ChunkB(kind) ==
    [text |-> Wrapper("self.webpackChunk", "self.webpackChunk", "||", "[]", "42",
                      <<"<MODULES>">>, <<"]", ")", ";">>),
     frag |-> <<Prop(Num(4), Factory(<<"e", "t", "r">>,
                                     <<ExprStmt(Require(9)), ExprStmt(Require(2)),
                                       ExprStmt(Require(2))>>))>>,
     options |-> CliOptions(kind)]

NoChunk(kind) ==
    [text |-> <<"x", ";">>, frag |-> <<>>, options |-> CliOptions(kind)]

\* the lists of files the caller is run on
FileLists ==
    {<<in>> : in \in Inputs}
        \cup
    {<<ChunkA("multi"), ChunkB("multi")>>,
     <<ChunkA("directed"), ChunkB("directed")>>,
     <<NoChunk("none"), ChunkA("none")>>,
     <<ChunkA("multi"), ChunkA("multi")>>}

Init ==
    /\ \E fs \in FileLists :
          /\ files = fs
          /\ chunkSrc = [text |-> fs[1].text, frag |-> fs[1].frag]
          /\ options = fs[1].options
          /\ graph = [NoGraph EXCEPT !.kind = fs[1].options.graph]
    /\ fileIdx = 1
    /\ importedModules = {}
    /\ declaredModules = {}
    /\ undeclaredModules = {}
    /\ chunkCount = 0
    /\ moduleVariables = EmptyMap
    /\ moduleVariableCount = 0
    /\ pc = "match"
    /\ m = [matched |-> FALSE, m4 |-> "", m5 |-> <<>>]
    /\ table = <<>>
    /\ idx = 1
    /\ chunkModuleParams = <<>>
    /\ chunkModules = EmptyMap
    /\ keyOrder = <<>>
    /\ cur = NoModule
    /\ agenda = <<>>
    /\ entries = <<>>
    /\ importsToRename = EmptyMap
    /\ log = <<>>
    /\ result = NoResult

Spec == Init /\ [][Next]_vars

(***************************************************************************)
(* Properties.  What a property needs to know about the table is computed  *)
(* from the table itself, not read off the traversals.                     *)
(***************************************************************************)
\* the slot names after the first j entries of tb have been examined
RECURSIVE SlotsAfter(_, _, _)
SlotsAfter(tb, j, mt) ==
    IF j = 0 THEN <<>>
    ELSE ValidateEntry(tb[j], SlotsAfter(tb, j - 1, mt), mt).params

\* an entry that meets every requirement of the validator, given the slots
PassesValidation(property, slots) ==
    /\ property.type = "ObjectProperty"
    /\ property.key.type \in {"NumericLiteral", "StringLiteral", "Identifier"}
    /\ property.value.type \in {"FunctionExpression", "ArrowFunctionExpression"}
    /\ Len(property.value.params) <= 3
    /\ \A i \in 1..Len(property.value.params) :
          /\ property.value.params[i].type = "Identifier"
          /\ i <= Len(slots) => property.value.params[i].name = slots[i]
    /\ property.value.body.type = "BlockStatement"

PassesAt(j) ==
    PassesValidation(table[j], SlotsAfter(table, j - 1, options.moduleTransformations))

\* the final identifier of the entry at position j
FinalIdAt(j) ==
    resolveModule(IF table[j].key.type = "Identifier" THEN table[j].key.name
                  ELSE LiteralToString(table[j].key),
                  options.moduleTransformations)[1]

\* a default-export candidate: slot.exports = value, slot unbound at p
IsCandidate(tree, p, slot) ==
    LET n == Get(tree, p)
    IN  /\ n.type = "AssignmentExpression"
        /\ n.operator = "="
        /\ n.left.type = "MemberExpression"
        /\ n.left.object.type = "Identifier"
        /\ n.left.object.name = slot
        /\ n.left.property.type = "Identifier"
        /\ n.left.property.name = "exports"
        /\ ~hasBinding(tree, p, slot)

Candidates(tree, slot) ==
    SelectSeq(AllPaths(tree, <<>>), LAMBDA p : IsCandidate(tree, p, slot))

\* the flags the definition of the classification gives the entry at j
FlagsByTable(j) ==
    LET tree == File(table[j].value.body.body)
        slot == ParamAt(SlotsAfter(table, j, options.moduleTransformations), 0)
        cs == Candidates(tree, slot)
    IN  [hasDefaultExport |-> Len(cs) >= 1,
         isCommonJS |-> \/ Len(cs) >= 2
                        \/ \E k \in 1..Len(cs) :
                              Get(tree, cs[k]).right.type = "ObjectExpression"]

RecordedFlags(id) ==
    [hasDefaultExport |-> chunkModules[id].hasDefaultExport,
     isCommonJS |-> chunkModules[id].isCommonJS]

\* C1: while the rewrite pass runs on any module, chunkModulesLoop has
\* examined every table entry, and every entry that passes validation has
\* its record in the mapping with the flags of its completed scan; so what a
\* rewrite reads about an imported module are that module's final flags,
\* wherever the module stands in the table.
C1_ScanCompleteBeforeRewrite ==
    pc = "split" =>
        /\ idx > Len(table)
        /\ \A j \in 1..Len(table) :
              PassesAt(j) =>
                  /\ FinalIdAt(j) \in DOMAIN chunkModules
                  /\ RecordedFlags(FinalIdAt(j))
                        = FlagsByTable(chunkModules[FinalIdAt(j)].entry)

\* the rewrite of module 1, first in the table, is about to decide on
\* var x = r(2) while module 2, later in the table, has a default export
C1_Witness ==
    /\ pc = "split"
    /\ cur.entry = 1
    /\ agenda # <<>>
    /\ Get(cur.file, Head(agenda)) = Declarator(Id("x"), Require(2))
    /\ "2" \in DOMAIN chunkModules
    /\ chunkModules["2"].entry = 2
    /\ chunkModules["2"].hasDefaultExport

\* the entry uses, in a slot that already has a name, another identifier,
\* and the parameter loop gets as far as that slot
SlotMismatch(property, slots) ==
    /\ property.type = "ObjectProperty"
    /\ property.key.type \in {"NumericLiteral", "StringLiteral", "Identifier"}
    /\ property.value.type \in {"FunctionExpression", "ArrowFunctionExpression"}
    /\ Len(property.value.params) <= 3
    /\ \E i \in 1..Len(property.value.params) :
          /\ i <= Len(slots)
          /\ property.value.params[i].type = "Identifier"
          /\ property.value.params[i].name # slots[i]
          /\ \A k \in 1..(i - 1) :
                /\ property.value.params[k].type = "Identifier"
                /\ property.value.params[k].name = slots[k]

\* C2: when chunkModulesLoop examines an entry whose factory names a slot
\* differently from the name already fixed, only that entry is rejected: the
\* slot names and the mapping stay as they are and the loop goes on to the
\* next entry; and no step of a call ever takes a record out of the mapping
\* of that call (the caller's step to the next file starts a call with a
\* mapping of its own).
C2_MismatchRejectsOnlyThatEntry ==
    [][/\ (/\ pc = "loop"
           /\ idx <= Len(table)
           /\ SlotMismatch(table[idx], chunkModuleParams))
          => /\ pc' = "loop"
             /\ idx' = idx + 1
             /\ chunkModuleParams' = chunkModuleParams
             /\ chunkModules' = chunkModules
             /\ keyOrder' = keyOrder
       /\ pc # "files" => \A id \in DOMAIN chunkModules : id \in DOMAIN chunkModules'
      ]_vars

\* in a table of three the second entry was rejected for a slot name, and
\* the first and the third are in the returned mapping
C2_Witness ==
    /\ pc = "done"
    /\ result.kind = "chunk"
    /\ Len(table) = 3
    /\ SlotMismatch(table[2], chunkModuleParams)
    /\ \E a, b \in DOMAIN result.modules :
          result.modules[a].entry = 1 /\ result.modules[b].entry = 3
    /\ \A id \in DOMAIN result.modules : result.modules[id].entry # 2

\* C3: examining an entry that ends up rejected leaves the slot names as
\* they were before the entry was examined.
C3_RejectedEntryLeavesSlots ==
    [][(/\ pc = "loop"
        /\ idx <= Len(table)
        /\ ~PassesValidation(table[idx], chunkModuleParams))
          => chunkModuleParams' = chunkModuleParams
      ]_vars

Logged(level, tag, msg) ==
    {k \in 1..Len(log) : log[k] = [level |-> level, tag |-> tag, msg |-> msg]}

\* C4: in a returned chunk, no entry that fails a validation has a record in
\* the mapping, and every record belongs to an entry that passes them all
\* and for which first the scan traversal and then the split traversal ran.
C4_OnlyValidatedModulesReturned ==
    (pc = "done" /\ result.kind = "chunk") =>
        /\ \A j \in 1..Len(table) :
              ~PassesAt(j) =>
                  \A id \in DOMAIN result.modules : result.modules[id].entry # j
        /\ \A id \in DOMAIN result.modules :
              /\ PassesAt(result.modules[id].entry)
              /\ \E k1 \in Logged("debug", id,
                                  "Running initial import and export scan traversal") :
                    \E k2 \in Logged("debug", id, "Running module split traversal") :
                        k1 < k2

\* a chunk is returned from a table in which the first entry was rejected
\* and the second is in the mapping
C4_Witness ==
    /\ pc = "done"
    /\ result.kind = "chunk"
    /\ Len(table) >= 2
    /\ ~PassesAt(1)
    /\ \E id \in DOMAIN result.modules : result.modules[id].entry = 2

\* the captured table text parses to one statement of the expected shape
TableShapeOk ==
    LET ast == Parse(<<"(">> \o m.m5 \o <<",", "0", ")">>, chunkSrc.frag)
    IN  ast # SyntaxError /\ RootObject(ast) # Null

\* C5: the call ends without an exception for every text; it returns null
\* exactly when the text does not match or the captured table text is not a
\* single statement of the expected shape, text that cannot be parsed
\* included; otherwise it returns a chunk, whose mapping is empty when no
\* entry passes validation.
C5_NeverThrows ==
    pc = "done" =>
        /\ result.kind \in {"null", "chunk"}
        /\ result.kind = "null" <=> (~m.matched \/ ~TableShapeOk)
        /\ (result.kind = "chunk" /\ \A j \in 1..Len(table) : ~PassesAt(j))
              => result.modules = EmptyMap

Occurs(text, pattern, i) ==
    /\ i + Len(pattern) - 1 <= Len(text)
    /\ SubSeq(text, i, i + Len(pattern) - 1) = pattern

IdiomHead(X, d) ==
    <<"(", X, "=", X, "||", "[]", ")", ".push(", "[[", d, "],", "{">>

IdiomTail == <<"}", "]", ")", ";">>

Digits == {"7", "42"}

\* what can stand between the braces of an object literal
ObjectLiteralInners == {<<>>, <<" ">>, <<"<MODULES>">>}

\* the text holds the idiom for some name X, with an object literal
ContainsIdiom(text) ==
    \E X \in Names, d \in Digits, i \in 1..Len(text), e \in 1..Len(text) :
        /\ Occurs(text, IdiomHead(X, d), i)
        /\ Occurs(text, IdiomTail, e)
        /\ e >= i + 12
        /\ SubSeq(text, i + 12, e - 1) \in ObjectLiteralInners

\* the text holds the idiom for a name self.webpackChunk..., with at least
\* one token of any kind between the braces
ContainsWebpackIdiom(text) ==
    \E X \in {n \in Names : IsWebpackChunkName(n)}, d \in Digits,
       i \in 1..Len(text), e \in 1..Len(text) :
        /\ Occurs(text, IdiomHead(X, d), i)
        /\ Occurs(text, IdiomTail, e)
        /\ e >= i + 13

\* nowhere in the text stands an intact guard ( X = X || [] )
GuardCorrupted(text) ==
    ~\E i \in 1..Len(text) :
        /\ i + 6 <= Len(text)
        /\ text[i] = "("
        /\ text[i + 2] = "="
        /\ text[i + 1] = text[i + 3]
        /\ text[i + 4] = "||"
        /\ text[i + 5] = "[]"
        /\ text[i + 6] = ")"

\* C6 as stated: the matcher matches exactly the texts that hold the idiom
\* (X = X || []).push([[digits], {...}]); for a name X and an object
\* literal, and no text whose guard is corrupted.
C6_MatchIffIdiom ==
    pc # "match" =>
        /\ m.matched <=> ContainsIdiom(chunkSrc.text)
        /\ GuardCorrupted(chunkSrc.text) => ~m.matched

\* C6, amended: the matcher matches exactly the texts that hold the idiom
\* with a name X that is self.webpackChunk followed by word characters and
\* with at least one character, of any kind, between the braces; no text
\* whose guard is corrupted matches.
C6_MatchIffWebpackIdiom ==
    pc # "match" =>
        /\ m.matched <=> ContainsWebpackIdiom(chunkSrc.text)
        /\ GuardCorrupted(chunkSrc.text) => ~m.matched

\* a text matched although the idiom does not start it and what stands
\* between the braces is no object literal
C6_Witness ==
    /\ pc # "match"
    /\ m.matched
    /\ chunkSrc.text[1] = "/*!*/"
    /\ m.m5 = <<"{", "a", "b", "}">>

RECURSIVE PathExists(_, _)
PathExists(n, p) ==
    \/ p = <<>>
    \/ /\ \E k \in Range(VisitorKeys(n.type)) :
             k.f = Head(p).f /\ k.list = (Head(p).i > 0)
       /\ Head(p).i > 0 => Head(p).i <= Len(n[Head(p).f])
       /\ PathExists(Child(n, Head(p)), Tail(p))

\* how many nodes of the tree are the node
Count(tree, node) ==
    Len(SelectSeq(AllPaths(tree, <<>>), LAMBDA q : Get(tree, q) = node))

GetterForm(property) ==
    /\ property.type = "ObjectProperty"
    /\ property.key.type = "Identifier"
    /\ property.value.type = "ArrowFunctionExpression"
    /\ Len(property.value.params) = 0
    /\ property.value.body.type = "Identifier"

\* r.d(t, {key: () => ident, ...}) with r and t the slot names
ValidDefiner(node, slots) ==
    /\ node.type = "CallExpression"
    /\ node.callee.type = "MemberExpression"
    /\ node.callee.object.type = "Identifier"
    /\ node.callee.object.name = ParamAt(slots, 2)
    /\ node.callee.property.type = "Identifier"
    /\ node.callee.property.name = "d"
    /\ Len(node.arguments) = 2
    /\ node.arguments[1].type = "Identifier"
    /\ node.arguments[1].name = ParamAt(slots, 1)
    /\ node.arguments[2].type = "ObjectExpression"
    /\ \A j \in 1..Len(node.arguments[2].properties) :
          GetterForm(node.arguments[2].properties[j])

ExpectedExport(property) ==
    IF property.key.name = "default"
    THEN ExportDefault(Id(property.value.body.name))
    ELSE ExportNamed(<<ExportSpecifier(Id(property.value.body.name),
                                       Id(property.key.name))>>)

DefinerCalls(tree, slots) ==
    SelectSeq(AllPaths(tree, <<>>), LAMBDA q : ValidDefiner(Get(tree, q), slots))

\* C8: when the split traversal visits a valid exports-definer call whose
\* properties all have the form key: () => ident, the statement list that
\* holds the call's statement gets, right in front of that statement and in
\* property order, one export declaration per property, the rest of the list
\* stays as it was, and the call is gone; no such call is left in a module
\* of a returned chunk.
C8_DefinerBecomesExports ==
    [][/\ (/\ pc = "split"
           /\ agenda # <<>>
           /\ ValidDefiner(Get(cur.file, Head(agenda)), chunkModuleParams))
          => LET p == Head(agenda)
                 sp == getStatementParent(cur.file, p)
                 at == Last(sp).i
                 props == Get(cur.file, p).arguments[2].properties
                 before == Get(cur.file, Front(sp))[Last(sp).f]
                 after == Get(cur'.file, Front(sp))[Last(sp).f]
                 kept == Len(after) - Len(props) - (at - 1)
             IN  /\ kept \in {Len(before) - at, Len(before) - at + 1}
                 /\ \A j \in 1..Len(props) :
                       after[at + j - 1] = ExpectedExport(props[j])
                 /\ SubSeq(after, 1, at - 1) = SubSeq(before, 1, at - 1)
                 /\ SubSeq(after, Len(after) - (Len(before) - at) + 1, Len(after))
                       = SubSeq(before, at + 1, Len(before))
                 /\ Len(DefinerCalls(cur'.file, chunkModuleParams))
                       = Len(DefinerCalls(cur.file, chunkModuleParams)) - 1
       /\ (pc' = "done" /\ result'.kind = "chunk")
          => \A id \in DOMAIN result'.modules :
                DefinerCalls(result'.modules[id].file, chunkModuleParams') = <<>>
      ]_vars

\* the rewrite of a module has put export {bar as foo} and then
\* export default baz where the definer call stood, and no definer call is left
C8_Witness ==
    /\ pc = "split"
    /\ Len(cur.file.body) >= 2
    /\ cur.file.body[1] = ExportNamed(<<ExportSpecifier(Id("bar"), Id("foo"))>>)
    /\ cur.file.body[2] = ExportDefault(Id("baz"))
    /\ DefinerCalls(cur.file, chunkModuleParams) = <<>>
    /\ ValidDefiner(table[cur.entry].value.body.body[1].expression, chunkModuleParams)

\* a call of the require slot, unbound at path p, on one literal module id
RequireSite(tree, node, p, slots) ==
    /\ node.type = "CallExpression"
    /\ node.callee.type = "Identifier"
    /\ node.callee.name = ParamAt(slots, 2)
    /\ ~hasBinding(tree, p, node.callee.name)
    /\ Len(node.arguments) = 1
    /\ node.arguments[1].type \in {"NumericLiteral", "StringLiteral"}

\* the module a require site asks for, as <<id, path>>
Required(node) ==
    resolveModule(LiteralToString(node.arguments[1]), options.moduleTransformations)

\* the module of that id is in the table with a default-export candidate
HasDefaultByTable(id) ==
    /\ id \in DOMAIN chunkModules
    /\ FlagsByTable(chunkModules[id].entry).hasDefaultExport

InSyncFunction(tree, p) ==
    /\ getFunctionParent(tree, p) # NoPath
    /\ Get(tree, getFunctionParent(tree, p)).async = FALSE

AwaitCount(tree) ==
    Len(SelectSeq(AllPaths(tree, <<>>),
                  LAMBDA q : Get(tree, q).type = "AwaitExpression"))

\* C10: in every module, ESM or CommonJS, a require call inside a function
\* that is not async becomes require("path") where it stands, whether it is
\* a bare call, the initializer of a declarator or the object of a member
\* access that initializes a declarator, and no await import(...) appears.
C10_SyncFunctionGetsRequire ==
    [][(/\ pc = "split"
        /\ agenda # <<>>
        /\ InSyncFunction(cur.file, Head(agenda)))
       => LET p == Head(agenda)
              node == Get(cur.file, p)
          IN  /\ RequireSite(cur.file, node, p, chunkModuleParams)
                    => /\ Get(cur'.file, p) = RequireCall(Required(node)[2])
                       /\ AwaitCount(cur'.file) = AwaitCount(cur.file)
              /\ (/\ node.type = "VariableDeclarator"
                  /\ node.id.type = "Identifier"
                  /\ RequireSite(cur.file, node.init, p, chunkModuleParams))
                    => /\ PathExists(cur'.file, p)
                       /\ Get(cur'.file, p)
                             = Declarator(node.id, RequireCall(Required(node.init)[2]))
              /\ (/\ node.type = "VariableDeclarator"
                  /\ node.id.type = "Identifier"
                  /\ node.init.type = "MemberExpression"
                  /\ node.init.property.type = "Identifier"
                  /\ RequireSite(cur.file, node.init.object, p, chunkModuleParams))
                    => /\ PathExists(cur'.file, p)
                       /\ Get(cur'.file, p)
                             = Declarator(node.id,
                                          [node.init EXCEPT !.object =
                                              RequireCall(Required(node.init.object)[2])])
      ]_vars

\* the nearest function around p is an async one
InAsyncFunction(tree, p) ==
    /\ getFunctionParent(tree, p) # NoPath
    /\ Get(tree, getFunctionParent(tree, p)).async = TRUE

\* C11 as stated: a require call visited as an expression becomes
\* await import(path) if the module is ESM and the call sits inside an async
\* function, and require(path) in every other case, the case of no
\* enclosing function included.
C11_AwaitOnlyInAsyncFunction ==
    [][(/\ pc = "split"
        /\ agenda # <<>>
        /\ RequireSite(cur.file, Get(cur.file, Head(agenda)), Head(agenda),
                       chunkModuleParams))
       => LET p == Head(agenda)
              path == Required(Get(cur.file, p))[2]
          IN  Get(cur'.file, p)
                 = IF ~cur.isCommonJS /\ InAsyncFunction(cur.file, p)
                   THEN Await(ImportExpr(Str(path)))
                   ELSE RequireCall(path)
      ]_vars

\* C11, amended: a require call visited as an expression becomes
\* require(path) if the module is CommonJS or the nearest enclosing
\* function is not async, and await import(path) otherwise, that is in an
\* ESM module inside an async function or outside every function.
C11_AwaitUnlessSyncFunction ==
    [][(/\ pc = "split"
        /\ agenda # <<>>
        /\ RequireSite(cur.file, Get(cur.file, Head(agenda)), Head(agenda),
                       chunkModuleParams))
       => LET p == Head(agenda)
              path == Required(Get(cur.file, p))[2]
          IN  Get(cur'.file, p)
                 = IF cur.isCommonJS \/ InSyncFunction(cur.file, p)
                   THEN RequireCall(path)
                   ELSE Await(ImportExpr(Str(path)))
      ]_vars

\* an ESM module whose require call outside every function has become
\* await import("./3")
C11_Witness ==
    /\ pc = "split"
    /\ ~cur.isCommonJS
    /\ table[cur.entry].value.body.body = <<ExprStmt(Require(3))>>
    /\ cur.file.body = <<ExprStmt(Await(ImportExpr(Str("./3"))))>>

\* the names some declaration of the tree binds
DeclaredIn(tree) ==
    UNION {LET n == Get(tree, q)
           IN  IF n.type = "VariableDeclarator" /\ n.id.type = "Identifier"
               THEN {n.id.name}
               ELSE IF n.type = "FunctionDeclaration"
               THEN {n.id.name} \cup ParamNames(n.params)
               ELSE IF n.type \in FunctionTypes
               THEN ParamNames(n.params)
               ELSE IF n.type \in {"ImportDefaultSpecifier",
                                   "ImportNamespaceSpecifier", "ImportSpecifier"}
               THEN {n.local.name}
               ELSE {} : q \in Range(AllPaths(tree, <<>>))}

\* the candidates a scan of the rewritten tree finds whether it runs with
\* the scopes kept from the earlier traversals or with newly crawled ones
RescanCandidates(tree, slot) ==
    IF slot \in DeclaredIn(tree) THEN <<>> ELSE Candidates(tree, slot)

RescanFlags(tree, slot) ==
    LET cs == RescanCandidates(tree, slot)
    IN  [hasDefaultExport |-> Len(cs) >= 1,
         isCommonJS |-> \/ Len(cs) >= 2
                        \/ \E k \in 1..Len(cs) :
                              Get(tree, cs[k]).right.type = "ObjectExpression"]

\* C12: for every module of a returned chunk that the scan classified as
\* neither CommonJS nor having a default export, a scan of its rewritten
\* tree gives the same classification again.
C12_RescanKeepsClassification ==
    (pc = "done" /\ result.kind = "chunk") =>
        \A id \in DOMAIN result.modules :
            (~result.modules[id].isCommonJS /\ ~result.modules[id].hasDefaultExport)
                => RescanFlags(result.modules[id].file, ParamAt(chunkModuleParams, 0))
                      = [hasDefaultExport |-> FALSE, isCommonJS |-> FALSE]

\* the paths of the nodes that have a scope of their own
ScopePaths(tree) ==
    {q \in Range(AllPaths(tree, <<>>)) :
        Get(tree, q).type \in FunctionTypes \cup {"Program"}}

\* the name rename asks the scope for
RenameTarget(renameTo) ==
    IF renameTo \in {"default", "class", "function", "new", "delete", "import"}
    THEN "_" \o renameTo ELSE renameTo

\* C13: when the split traversal calls rename for an export specifier and
\* the target name, with the underscore put before a reserved word, is
\* bound in the scope, the tree with its bindings stays as it is, a
\* diagnostic is logged and null is returned; and whatever the call, every
\* scope keeps its bindings, none is lost and none is written over: a scope
\* either has the same names as before or has the target in place of the
\* original, the target not having been among its names.
C13_RenameFailsClosed ==
    [][(/\ pc = "split"
        /\ agenda # <<>>
        /\ Get(cur.file, Head(agenda)).type = "ExportSpecifier"
        /\ Get(cur.file, Head(agenda)).exported.type = "Identifier")
       => LET p == Head(agenda)
              original == Get(cur.file, p).local.name
              target == RenameTarget(Get(cur.file, p).exported.name)
          IN  /\ (original # target /\ hasBinding(cur.file, p, target))
                    => /\ cur'.file = cur.file
                       /\ Len(log') = Len(log) + 1
                       /\ log'[Len(log')].level = "warn"
                       /\ rename(cur.file, p, original,
                                 Get(cur.file, p).exported.name).ret = ""
              /\ \A q \in ScopePaths(cur.file) :
                    LET before == Get(cur.file, q).bound
                        after == Get(cur'.file, q).bound
                    IN  \/ after = before
                        \/ /\ original \in before
                           /\ target \notin before
                           /\ after = (before \ {original}) \cup {target}
      ]_vars

\* a module in which the rename of bar to the bound name foo was refused
\* with a diagnostic and the later rename of foo to qux was done
C13_Witness ==
    /\ pc = "split"
    /\ cur.file.bound = {"bar", "qux"}
    /\ \E k \in 1..Len(log) :
          /\ log[k].level = "warn"
          /\ log[k].msg = "Cannot rename variable, already bound"
    /\ Count(cur.file, ExportSpecifier(Id("bar"), Id("foo"))) = 1
    /\ Count(cur.file, ExportSpecifier(Id("qux"), Id("qux"))) = 1

\* the module table of a chunk file, empty when the file is no chunk
TableOfFile(f) ==
    LET mm == ChunkMatch(f.text)
        ast == Parse(<<"(">> \o mm.m5 \o <<",", "0", ")">>, f.frag)
    IN  IF ~mm.matched THEN <<>>
        ELSE IF ast = SyntaxError THEN <<>>
        ELSE IF RootObject(ast) = Null THEN <<>>
        ELSE RootObject(ast).properties

\* the positions of the entries of a file that pass validation
PassingIn(f) ==
    LET tb == TableOfFile(f)
    IN  {j \in 1..Len(tb) :
            PassesValidation(tb[j],
                SlotsAfter(tb, j - 1, f.options.moduleTransformations))}

\* the final identifiers of the modules a file declares
DeclaredBy(f) ==
    LET tb == TableOfFile(f)
    IN  {resolveModule(IF tb[j].key.type = "Identifier" THEN tb[j].key.name
                       ELSE LiteralToString(tb[j].key),
                       f.options.moduleTransformations)[1] : j \in PassingIn(f)}

\* the final identifiers the require calls of the modules of a file ask for
RequiredBy(f) ==
    LET tb == TableOfFile(f)
        mt == f.options.moduleTransformations
    IN  UNION {LET tree == File(tb[j].value.body.body)
                   slots == SlotsAfter(tb, j, mt)
               IN  {resolveModule(LiteralToString(Get(tree, q).arguments[1]), mt)[1] :
                       q \in {qq \in Range(AllPaths(tree, <<>>)) :
                                 RequireSite(tree, Get(tree, qq), qq, slots)}} :
               j \in PassingIn(f)}

\* C14: when the caller has run over all its files, its undeclared set is
\* the set of final identifiers some module of some file requires less the
\* set of final identifiers the files declare.
C14_UndeclaredIsRequiredLessDeclared ==
    pc = "end" =>
        undeclaredModules
            = (UNION {RequiredBy(files[k]) : k \in 1..Len(files)})
                  \ (UNION {DeclaredBy(files[k]) : k \in 1..Len(files)})

\* the call the scan visitor at p hands to parseImportCall, Null for none
ScanSite(tree, p) ==
    LET n == Get(tree, p)
    IN  IF n.type = "CallExpression" THEN n
        ELSE IF n.type # "VariableDeclarator" THEN Null
        ELSE IF n.init.type = "CallExpression" THEN n.init
        ELSE IF n.init.type = "MemberExpression" /\ n.init.object.type = "CallExpression"
        THEN n.init.object
        ELSE Null

C16_OneEdgePerPair ==
    graph.kind # "none" =>
        \A i, j \in 1..Len(graph.edges) : graph.edges[i] = graph.edges[j] => i = j

\* C17: when a chunk is returned and a graph was supplied, the node of every
\* module of the mapping carries the tree and the source of the module and,
\* besides these, the chunk id and the CommonJS flag; a node that no file
\* processed so far declares carries no tree.
C17_NodesCarryChunkAndFlag ==
    (pc = "done" /\ result.kind = "chunk" /\ graph.kind # "none") =>
        /\ \A id \in DOMAIN result.modules :
              /\ id \in DOMAIN graph.attrs
              /\ {"file", "source"} \subseteq DOMAIN graph.attrs[id]
              /\ graph.attrs[id].file = result.modules[id].file
              /\ graph.attrs[id].source = formattedModuleCode(result.modules[id].file)
              /\ Cardinality(DOMAIN graph.attrs[id] \ {"file", "source"}) >= 2
        /\ \A n \in graph.nodes \ UNION {DeclaredBy(files[k]) : k \in 1..fileIdx} :
              n \notin DOMAIN graph.attrs

\* C18: in a returned chunk the source field of every module is populated,
\* with the formatted serialisation of the rewritten tree.
C18_SourcePopulated ==
    (pc = "done" /\ result.kind = "chunk") =>
        \A id \in DOMAIN result.modules : result.modules[id].source # ""

\* the raw keys resolveModule is asked about
RawKeys == {"1", "2", "3", "9"}

\* what the contract of resolveModule gives for a key and the overrides
ResolvedByContract(key, overrides) ==
    LET renamed == key \in DOMAIN overrides /\ overrides[key].renameModule # ""
        R == overrides[key].renameModule
    IN  CASE ~renamed -> <<key, "./" \o key>>
          [] renamed /\ ~overrides[key].importAsAbsolute -> <<R, "./" \o R>>
          [] renamed /\ overrides[key].importAsAbsolute -> <<R, R>>

\* C19: resolveModule gives, for every raw key and the overrides of the
\* call, the pair its contract names: the key and ./key without a rename
\* (also when only the absolute flag is set), the rename and ./rename with a
\* rename, the rename twice with a rename and the absolute flag; and no step
\* of a call changes the overrides.
C19_ResolveModuleContract ==
    [][/\ \A key \in RawKeys :
             resolveModule(key, options.moduleTransformations)
                = ResolvedByContract(key, options.moduleTransformations)
       /\ pc # "files" => options' = options
      ]_vars

\* with module 2 renamed lib and imported as absolute, the rewritten module
\* imports x from "lib"
C19_Witness ==
    /\ pc = "split"
    /\ "2" \in DOMAIN options.moduleTransformations
    /\ options.moduleTransformations["2"].importAsAbsolute
    /\ options.moduleTransformations["3"].renameModule = ""
    /\ Count(cur.file, ImportDecl(<<ImportDefaultSpecifier(Id("x"))>>, Str("lib"))) = 1

\* r.d(t, {...}) with r and t the slot names, whatever the properties
DefinerFrame(node, slots) ==
    /\ node.type = "CallExpression"
    /\ node.callee.type = "MemberExpression"
    /\ node.callee.object.type = "Identifier"
    /\ node.callee.object.name = ParamAt(slots, 2)
    /\ node.callee.property.type = "Identifier"
    /\ node.callee.property.name = "d"
    /\ Len(node.arguments) = 2
    /\ node.arguments[1].type = "Identifier"
    /\ node.arguments[1].name = ParamAt(slots, 1)
    /\ node.arguments[2].type = "ObjectExpression"

\* key: () => ident
ArrowGetter(property) ==
    /\ property.type = "ObjectProperty"
    /\ property.key.type = "Identifier"
    /\ property.value.type \in {"FunctionExpression", "ArrowFunctionExpression"}
    /\ Len(property.value.params) = 0
    /\ property.value.body.type = "Identifier"

\* key: function () { return ident }
BlockGetter(property) ==
    /\ property.type = "ObjectProperty"
    /\ property.key.type = "Identifier"
    /\ property.value.type \in {"FunctionExpression", "ArrowFunctionExpression"}
    /\ Len(property.value.params) = 0
    /\ property.value.body.type = "BlockStatement"
    /\ Len(property.value.body.body) = 1
    /\ property.value.body.body[1].type = "ReturnStatement"
    /\ property.value.body.body[1].argument.type = "Identifier"

\* the export declaration of a property that is a getter of either form
GetterExport(property) ==
    LET ident == IF ArrowGetter(property) THEN property.value.body.name
                 ELSE property.value.body.body[1].argument.name
    IN  IF property.key.name = "default" THEN ExportDefault(Id(ident))
        ELSE ExportNamed(<<ExportSpecifier(Id(ident), Id(property.key.name))>>)

\* the export declarations of the getters among the properties from i on
RECURSIVE GetterExports(_, _)
GetterExports(props, i) ==
    IF i > Len(props) THEN <<>>
    ELSE (IF ArrowGetter(props[i]) \/ BlockGetter(props[i])
          THEN <<GetterExport(props[i])>> ELSE <<>>) \o GetterExports(props, i + 1)

MemberImportSite(tree, p, slots) ==
    LET n == Get(tree, p)
    IN  /\ n.type = "VariableDeclarator"
        /\ n.id.type = "Identifier"
        /\ n.init.type = "MemberExpression"
        /\ n.init.property.type = "Identifier"
        /\ RequireSite(tree, n.init.object, p, slots)

\* the places of a tree where the split traversal changes its shape
MovingSite(tree, p, slots) ==
    LET n == Get(tree, p)
    IN  \/ DefinerFrame(n, slots)
        \/ IsCandidate(tree, p, ParamAt(slots, 0))
        \/ RequireSite(tree, n, p, slots)

\* an identifier that stands for a variable: no property name of a plain
\* member access, no key of a plain property, no label
IsReference(tree, q) ==
    LET parent == Get(tree, Front(q))
    IN  /\ q # <<>>
        /\ Get(tree, q).type = "Identifier"
        /\ ~(parent.type = "MemberExpression" /\ ~parent.computed
                /\ Last(q).f = "property")
        /\ ~(parent.type = "ObjectProperty" /\ ~parent.computed
                /\ Last(q).f = "key")
        /\ ~(parent.type = "LabeledStatement" /\ Last(q).f = "label")

\* the scope a name resolves to at q, NoPath for a name no scope binds
ResolvesTo(tree, q, name) ==
    IF BindingScopes(tree, q, name) = {} THEN NoPath
    ELSE Innermost(BindingScopes(tree, q, name))

\* C21: at the end of the split traversal of a module whose one rewrite
\* site is var a = require(K).p, alone in its declaration, the
\* declaration has become import { p as L } from K's path, with L = p when p
\* is no reserved word and not bound at the declaration and L = a otherwise;
\* every identifier that referred to a is spelled L and no scope between it
\* and the scope of a binds L; every other identifier is spelled as before,
\* but for the unbound exports slot.
C21_MemberImportRenamesReferences ==
    (pc = "split" /\ agenda = <<>> /\ ~cur.isCommonJS) =>
        LET T0 == File(table[cur.entry].value.body.body)
            T1 == cur.file
            all == Range(AllPaths(T0, <<>>))
            sites == {p \in all : MemberImportSite(T0, p, chunkModuleParams)}
        IN  \A p \in sites :
               (/\ sites = {p}
                /\ \A q \in all : IsPrefix(Front(p), q)
                                      \/ ~MovingSite(T0, q, chunkModuleParams)
                /\ Len(Get(T0, Front(p)).declarations) = 1)
               => LET a == Get(T0, p).id.name
                      imported == Get(T0, p).init.property.name
                      L == IF imported \notin reserved /\ ~hasBinding(T0, p, imported)
                           THEN imported ELSE a
                      home == ResolvesTo(T0, p, a)
                  IN  /\ Get(T1, Front(p))
                            = ImportDecl(<<ImportSpecifier(Id(L), Id(imported))>>,
                                         Str(Required(Get(T0, p).init.object)[2]))
                      /\ \A q \in all :
                            (Get(T0, q).type = "Identifier" /\ ~IsPrefix(Front(p), q))
                            => IF /\ IsReference(T0, q)
                                  /\ Get(T0, q).name = a
                                  /\ ResolvesTo(T0, q, a) = home
                               THEN /\ Get(T1, q) = Id(L)
                                    /\ \A sc \in BindingScopes(T1, q, L) :
                                          Len(sc) <= Len(home)
                               ELSE \/ Get(T1, q) = Get(T0, q)
                                    \/ /\ Get(T0, q).name = ParamAt(chunkModuleParams, 1)
                                       /\ ~hasBinding(T0, q, Get(T0, q).name)

\* C22: when the split traversal visits a default-export assignment, in a
\* CommonJS module or with ESM default exports disabled the assignment
\* becomes module.exports = value; otherwise, when it is the whole expression
\* of a statement the statement becomes export default value, and when it is
\* part of a larger expression const tmp = value and export default tmp stand
\* in that order right before the enclosing statement, the assignment's
\* place holds tmp, and no scope, declaration or identifier of the tree
\* before the step has the name tmp.
C22_DefaultExportAssignmentRewritten ==
    [][(/\ pc = "split"
        /\ agenda # <<>>
        /\ IsCandidate(cur.file, Head(agenda), ParamAt(chunkModuleParams, 0)))
       => LET p == Head(agenda)
              value == Get(cur.file, p).right
              sp == getStatementParent(cur.file, p)
              at == Last(sp).i
              before == Get(cur.file, Front(sp))[Last(sp).f]
              after == Get(cur'.file, Front(sp))[Last(sp).f]
              moved == [p EXCEPT ![Len(sp)] = Step(Last(sp).f, at + 2)]
          IN  IF cur.isCommonJS \/ ~options.esmDefaultExports
              THEN cur'.file = Put(cur.file, p, ModuleExports(value))
              ELSE IF Get(cur.file, Front(p)).type = "ExpressionStatement"
              THEN cur'.file = Put(cur.file, Front(p), ExportDefault(value))
              ELSE \E tmp \in Range(UidCandidates) :
                      /\ Len(after) = Len(before) + 2
                      /\ after[at] = VarDecl("const", <<Declarator(Id(tmp), value)>>)
                      /\ after[at + 1] = ExportDefault(Id(tmp))
                      /\ Get(cur'.file, moved) = Id(tmp)
                      /\ Put(after[at + 2], SubSeq(moved, Len(sp) + 1, Len(moved)),
                             Get(cur.file, p)) = before[at]
                      /\ ~hasBinding(cur.file, p, tmp)
                      /\ tmp \notin DeclaredIn(cur.file)
                      /\ tmp \notin NamesIn(cur.file)
      ]_vars

\* var y = e.exports = x in an ESM module where _exports is taken has
\* become const _exports2 = x; export default _exports2; var y = _exports2
C22_Witness ==
    /\ pc = "split"
    /\ ~cur.isCommonJS
    /\ options.esmDefaultExports
    /\ Len(cur.file.body) = 4
    /\ cur.file.body[1] = Var("_exports", Num(1))
    /\ cur.file.body[2] = VarDecl("const", <<Declarator(Id("_exports2"), Id("x"))>>)
    /\ cur.file.body[3] = ExportDefault(Id("_exports2"))
    /\ cur.file.body[4] = Var("y", Id("_exports2"))

\* an identifier that declares a variable of the module: the id of a
\* declarator or of a function declaration, a parameter, or the local name
\* of an import
IsDeclaring(tree, q) ==
    /\ q # <<>>
    /\ Get(tree, q).type = "Identifier"
    /\ \/ DeclaringScope(tree, q) # NoPath
       \/ /\ Get(tree, Front(q)).type \in {"ImportDefaultSpecifier",
                                          "ImportNamespaceSpecifier",
                                          "ImportSpecifier"}
          /\ Last(q).f = "local"

\* the declaring identifiers of a tree in traversal order
Declarations(tree) ==
    SelectSeq(AllPaths(tree, <<>>), LAMBDA q : IsDeclaring(tree, q))

\* C23: the module transformation traversal starts for a module only with a
\* comment flag set or with a rename by ordinal given for the module; and
\* when it has run, the k-th declaring identifier of the module's tree in
\* traversal order has the ordinal k-1, nothing else has an ordinal, and the
\* counter stands at the number of declarations.
C23_OrdinalsFollowDeclarations ==
    [][/\ (pc = "split" /\ pc' = "transform")
          => \/ options.includeVariableDeclarationComments
             \/ options.includeVariableReferenceComments
             \/ /\ cur.rawModuleId \in DOMAIN options.moduleTransformations
                /\ DOMAIN options.moduleTransformations[cur.rawModuleId].renameVariables
                      # {}
       /\ (pc = "transform" /\ agenda = <<>>)
          => LET ds == Declarations(cur.file)
             IN  /\ moduleVariableCount = Len(ds)
                 /\ DOMAIN moduleVariables = Range(ds)
                 /\ \A k \in 1..Len(ds) : moduleVariables[ds[k]] = k - 1
      ]_vars

\* C24: whatever the slots are called, the node a rewrite rule of the split
\* traversal puts in the place of an assignment or of a call, and that the
\* traversal visits next, is not a site of that rule again; were it one, the
\* visit would repeat without end.
C24_RewrittenNodeNotMatchedAgain ==
    (pc = "split" /\ agenda # <<>>) =>
        LET p == Head(agenda)
            node == Get(cur.file, p)
            slot == ParamAt(chunkModuleParams, 0)
        IN  /\ (node.type = "AssignmentExpression" /\ IsCandidate(cur.file, p, slot))
               => LET r == DefaultExportAssignment(cur.file, agenda,
                                                   chunkModuleParams, cur.isCommonJS,
                                                   options.esmDefaultExports)
                  IN  ~(/\ r.agenda # <<>>
                        /\ Head(r.agenda) = p
                        /\ IsCandidate(r.tree, p, slot))
            /\ RequireSite(cur.file, node, p, chunkModuleParams)
               => LET r == ImportCall(cur.file, agenda, chunkModuleParams,
                                      cur.isCommonJS, options.moduleTransformations)
                  IN  ~(/\ r.agenda # <<>>
                        /\ Head(r.agenda) = p
                        /\ RequireSite(r.tree, Get(r.tree, p), p, chunkModuleParams))

\* C25: with a graph supplied, when the split traversal of a module M comes
\* to a require site, the graph holds the edge from M to the module the site
\* asks for; and in a returned chunk every edge from a module M goes to a
\* module that a require site of M asks for.
C25_RewrittenRequireHasEdge ==
    graph.kind # "none" =>
        /\ (pc = "split" /\ agenda # <<>>)
           => LET site == ScanSite(cur.file, Head(agenda))
              IN  RequireSite(cur.file, site, Head(agenda), chunkModuleParams)
                  => <<cur.moduleId, Required(site)[1]>> \in Range(graph.edges)
        /\ (pc = "done" /\ result.kind = "chunk")
           => \A id \in DOMAIN result.modules :
                 LET T0 == File(table[result.modules[id].entry].value.body.body)
                     asked == {Required(ScanSite(T0, q))[1] :
                                 q \in {x \in Range(AllPaths(T0, <<>>)) :
                                          RequireSite(T0, ScanSite(T0, x), x,
                                                      chunkModuleParams)}}
                 IN  \A k \in 1..Len(graph.edges) :
                        graph.edges[k][1] = id => graph.edges[k][2] \in asked

\* the ES module declarations and dynamic imports of a tree
ModuleSyntax(tree) ==
    {q \in Range(AllPaths(tree, <<>>)) :
        Get(tree, q).type \in {"ImportDeclaration", "ExportNamedDeclaration",
                               "ExportDefaultDeclaration", "ImportExpression"}}

\* C26: in a returned chunk the rewritten tree of a module classified
\* CommonJS holds no import declaration, no export declaration and no
\* dynamic import.
C26_CommonJSWithoutModuleSyntax ==
    (pc = "done" /\ result.kind = "chunk") =>
        \A id \in DOMAIN result.modules :
            result.modules[id].isCommonJS => ModuleSyntax(result.modules[id].file) = {}

\* the import and export declarations of a tree
ModuleDeclarations(tree) ==
    {q \in ModuleSyntax(tree) : Get(tree, q).type # "ImportExpression"}

\* C27: in a returned chunk every import declaration and every export
\* declaration of a rewritten tree is a member of the tree's top-level
\* statement list.
C27_DeclarationsAtTopLevel ==
    (pc = "done" /\ result.kind = "chunk") =>
        \A id \in DOMAIN result.modules :
            \A q \in ModuleDeclarations(result.modules[id].file) :
                Len(q) = 1 /\ q[1].f = "body"

\* the `export default` declarations of a tree
DefaultDeclarations(tree) ==
    {q \in ModuleSyntax(tree) : Get(tree, q).type = "ExportDefaultDeclaration"}

\* C28: in a returned chunk the rewritten tree of a module holds at most one
\* `export default` declaration.
C28_AtMostOneExportDefault ==
    (pc = "done" /\ result.kind = "chunk") =>
        \A id \in DOMAIN result.modules :
            Cardinality(DefaultDeclarations(result.modules[id].file)) <= 1

\* C29: an accepted table entry is recorded under a final identifier that no
\* earlier accepted entry of the chunk was recorded under.
C29_AcceptedEntryNotOverwritten ==
    (pc = "scan" /\ agenda = <<>>) => cur.moduleId \notin DOMAIN chunkModules

\* C30: a step of the split traversal that visits an identifier changes its
\* spelling only if the identifier is a variable reference whose name no
\* scope binds, and then to `exports` from the exports slot's name or to the
\* name recorded for an import local.
C30_OnlyUnboundReferencesRespelled ==
    [][(pc = "split" /\ agenda # <<>>
          /\ Get(cur.file, Head(agenda)).type = "Identifier")
       => LET q == Head(agenda)
              name == Get(cur.file, q).name
              name1 == Get(cur'.file, q).name
          IN  name1 # name
              => /\ IsReference(cur.file, q)
                 /\ ~hasBinding(cur.file, q, name)
                 /\ \/ name = ParamAt(chunkModuleParams, 1) /\ name1 = "exports"
                    \/ /\ name \in DOMAIN importsToRename
                       /\ name1 = importsToRename[name]]_vars

====
